---------------------------- MODULE Spec2Model ----------------------------
(***************************************************************************)
(* GC-aware load balancer (TRINI): the dispatcher of                       *)
(* server/LoadBalancer.go and server/GCAwareLoadBalancer.go, the worker of *)
(* server/Server.go, and of server/TRINI.go the forecast test, the monitor *)
(* (collectGCSnapshot) and the analyzer (analyzeAndAdapt, the families).   *)
(*                                                                         *)
(* One step of the model is one critical section of the code: a section    *)
(* of a Server's mutex (IsAvailable, the capacity test, the two halves of  *)
(* CollectGCTasks, handleTask, the post-completion usage read) or a step   *)
(* of the caller between two of them.  LoadBalancer.mu is a Go sync.Mutex: *)
(* it has no owner and is not reentrant, so a Lock by the goroutine that   *)
(* already holds it blocks like any other Lock.                            *)
(***************************************************************************)
EXTENDS Integers, Sequences, FiniteSets, TLC

\* ------------------------------------------------------------------ bounds
\* len(l.Servers)
NumServers == 2
\* goroutines of RequestTask and of "go s.CollectGCTasks()" alive at a time
MaxGoroutines == 1
\* no new call of the dispatcher once a server's GCCount is MaxGC
MaxGC == 1
\* ticks of the monitoring ticker in a run of the monitor
MaxTicks == 2

\* ------------------------------------------------------ program constants
\* Server.memLimit (Start's default, Configure(100, 80.0))
memLimit == 100
\* Server.gcPercentage, in percent
GCPercent == 80
GCDurationMs == 5000
\* make(chan *Task, 1): the buffer of RequestTask's result channel
ResultChanCap == 1
\* "keep last 100 snapshots"
HistoryCap == 100
ForecastMaxAgeS == 30
ThresholdMs == 2000
UsPerMs == 1000
MonitorIntervalS == 2
FullWindow == 20
ConfidenceScale == 2 * FullWindow

ServerIdx == 0 .. (NumServers - 1)
\* len(taskInput): a task that fits twice in an empty heap, one that fills it
TaskSizes == {memLimit \div 2, memLimit}
GoIds == 1 .. MaxGoroutines
Nil == 0 - 1

YoungGenMax == memLimit \div 2
OldGenMax == memLimit \div 2

VARIABLES
    Servers,             \* l.Servers: index -> Server record
    currentServerIndex,  \* l.currentServerIndex
    mu,                  \* l.mu is locked
    IsActive,            \* l.TRINI.IsActive
    CurrentPolicy,       \* l.CurrentPolicy
    caller,              \* the goroutine that calls the dispatcher
    goroutines,          \* the goroutines RequestTask and the GC trigger start
    call,                \* history: what the caller's current call started from
    dirty,               \* history: servers changed by others since the caller probed them
    now,                 \* time.Now(), in monitoring intervals
    snapshotTasks,       \* per server, the started collectGCSnapshot goroutines that have not run
    analysisTasks        \* per server, the started analyzeAndAdapt goroutines

vars == <<Servers, currentServerIndex, mu, IsActive, CurrentPolicy,
          caller, goroutines, call, dirty, now, snapshotTasks, analysisTasks>>

\* ----------------------------------------------------------------- worker
\* untilUs is PredictedTime - now in microseconds, ageS is now -
\* ForecastCreatedAt in seconds, Confidence is in units of 1/ConfidenceScale.
NoForecast == [set |-> FALSE, untilUs |-> 0, ageS |-> 0, Confidence |-> 0]

NewServer ==
    [isCollectingGCTasks |-> FALSE, usedMemory |-> 0, TaskStorage |-> 0,
     YoungGenUsed |-> 0, OldGenUsed |-> 0, GCCount |-> 0, MaGCDuration |-> 0,
     Weights |-> 1, LastMaGCForecast |-> NoForecast,
     GCHistory |-> <<>>, CurrentFamily |-> "default"]

\* A worker that never reports itself busy (IsAvailable without its test).
AlwaysAvailable(s) == TRUE

\* IsAvailable: !s.isCollectingGCTasks
IsAvailable(s) == ~s.isCollectingGCTasks

\* A capacity test that looks at the heap and not at the task.
HasCapacityIgnoringTask(s, taskSize) == s.usedMemory <= memLimit

\* The test of CanHandleTaskSize and canHandleTask.
HasCapacity(s, taskSize) == s.usedMemory + taskSize <= memLimit

\* A first critical section that forgets to set the flag.
CollectGCBeginNoFlag(s) == s

\* CollectGCTasks, first critical section (after the isCollectingGCTasks test).
CollectGCBegin(s) == [s EXCEPT !.isCollectingGCTasks = TRUE]

\* calculateGCDuration: variation, a fifth of the base duration (whole ms).
variation(usedMemory) == (10000 + (usedMemory * 2500) \div memLimit) \div 5

\* A duration with the lower limit only.
gcDurationNoCeiling(usedMemory, randomValue) ==
    LET duration == 10000 + (usedMemory * 2500) \div memLimit
                    + randomValue - variation(usedMemory)
    IN  IF duration < 100 THEN 100 ELSE duration

\* calculateGCDuration in ms, for the value randomValue of
\* rand.Int63n(variation*2): the base grows with the usage, the random part
\* is within a fifth of it, the result is kept within 100 .. 5000.
calculateGCDuration(usedMemory, randomValue) ==
    LET baseDuration == 10000 + (usedMemory * 2500) \div memLimit
        randomVariation == randomValue - variation(usedMemory)
        duration == baseDuration + randomVariation
    IN  IF duration < 100 THEN 100
        ELSE IF duration > 5000 THEN 5000
        ELSE duration

\* The least, the middle and the largest value of rand.Int63n(variation*2)
\* (the duration grows with the value).
RandomValues(usedMemory) ==
    {0, variation(usedMemory), 2 * variation(usedMemory) - 1}

\* The durations CollectGCTasks may sleep on server s. The model reads the
\* usage when the sleep ends and takes the sleep for the measured MaGCDuration.
GCDurations(s) ==
    {calculateGCDuration(s.usedMemory, randomValue) :
        randomValue \in RandomValues(s.usedMemory)}

\* A second critical section that leaves the flag set.
CollectGCEndKeepFlag(s, gcDuration) ==
    [s EXCEPT !.MaGCDuration = gcDuration, !.GCCount = @ + 1,
              !.TaskStorage = 0, !.usedMemory = 0,
              !.YoungGenUsed = 0, !.OldGenUsed = 0]

\* The second critical section without its last two assignments.
CollectGCEndNoYoungReset(s, gcDuration) ==
    [s EXCEPT !.MaGCDuration = gcDuration, !.GCCount = @ + 1,
              !.isCollectingGCTasks = FALSE, !.TaskStorage = 0, !.usedMemory = 0]

\* CollectGCTasks, second critical section: the record of the MaGC and the reset.
CollectGCEnd(s, gcDuration) ==
    [s EXCEPT !.MaGCDuration = gcDuration, !.GCCount = @ + 1,
              !.isCollectingGCTasks = FALSE, !.TaskStorage = 0, !.usedMemory = 0,
              !.YoungGenUsed = 0, !.OldGenUsed = 0]

Min(a, b) == IF a < b THEN a ELSE b

\* handleTask without "Ensure we don't exceed limits".
handleTaskNoCap(s, taskSize) ==
    LET youngGenAllocation == (taskSize * 8) \div 10
        oldGenAllocation == taskSize - youngGenAllocation
        young1 == s.YoungGenUsed + youngGenAllocation
        old1 == s.OldGenUsed + oldGenAllocation
        promoted == IF young1 > YoungGenMax \div 2 THEN young1 \div 4 ELSE 0
    IN  [s EXCEPT !.usedMemory = @ + taskSize,
                  !.YoungGenUsed = young1 - promoted,
                  !.OldGenUsed = old1 + promoted,
                  !.TaskStorage = @ + 1]

\* handleTask without the promotion from the young to the old generation.
handleTaskNoPromotion(s, taskSize) ==
    LET youngGenAllocation == (taskSize * 8) \div 10
        oldGenAllocation == taskSize - youngGenAllocation
    IN  [s EXCEPT !.usedMemory = @ + taskSize,
                  !.YoungGenUsed = Min(@ + youngGenAllocation, YoungGenMax),
                  !.OldGenUsed = Min(@ + oldGenAllocation, OldGenMax),
                  !.TaskStorage = @ + 1]

\* handleTask: charge the heap, split 80/20, promote, cap, store the task id.
handleTask(s, taskSize) ==
    LET youngGenAllocation == (taskSize * 8) \div 10
        oldGenAllocation == taskSize - youngGenAllocation
        young1 == s.YoungGenUsed + youngGenAllocation
        old1 == s.OldGenUsed + oldGenAllocation
        promoted == IF young1 > YoungGenMax \div 2 THEN young1 \div 4 ELSE 0
    IN  [s EXCEPT !.usedMemory = @ + taskSize,
                  !.YoungGenUsed = Min(young1 - promoted, YoungGenMax),
                  !.OldGenUsed = Min(old1 + promoted, OldGenMax),
                  !.TaskStorage = @ + 1]

\* A goroutine that never starts the MaGC.
NeverNeedsGC(s) == FALSE

\* RequestTask's goroutine after handleTask: memoryUsage >= gcThreshold.
NeedsGC(s) == s.usedMemory * 100 >= GCPercent * memLimit

\* A duration rounded to the millisecond below it, whatever its sign.
MillisecondsFloor(us) == us \div UsPerMs

\* Duration.Milliseconds: the whole milliseconds of a duration, the fraction
\* dropped toward zero.
Milliseconds(us) ==
    IF us >= 0 THEN us \div UsPerMs ELSE 0 - ((0 - us) \div UsPerMs)

\* IsMaGCPredicted: a forecast, not older than 30 s, due within the threshold.
IsMaGCPredicted(s, thresholdMs) ==
    LET f == s.LastMaGCForecast
        timeToMaGC == Milliseconds(f.untilUs)
    IN  /\ f.set
        /\ ~(f.ageS > ForecastMaxAgeS)
        /\ timeToMaGC >= 0
        /\ timeToMaGC <= thresholdMs

\* ------------------------------------------------------------- dispatcher
ZeroPolicy == [Algorithm |-> "", GCAware |-> FALSE, MaGCThreshold |-> 0]

\* What updateTRINIPolicy accepts (setPolicyFromArgs and AdaptPolicy install
\* GC-aware ones), with the threshold of the default family.
Policies ==
    [Algorithm : {"RR", "RAN", "WRR", "WRAN"}, GCAware : BOOLEAN,
     MaGCThreshold : {ThresholdMs}]

\* No forecast, or a fresh one that predicts a MaGC within the threshold.
Forecasts ==
    {NoForecast,
     [set |-> TRUE, untilUs |-> (ThresholdMs \div 2) * UsPerMs, ageS |-> 0,
      Confidence |-> ConfidenceScale]}

IdleCaller ==
    [pc |-> "idle", fn |-> "none", via |-> "none", taskSize |-> 0,
     startIndex |-> 0, i |-> 0, fTries |-> 0, availableServers |-> <<>>,
     totalWeight |-> 0, escape |-> FALSE, result |-> Nil]

NoCall ==
    [admissible |-> {}, predicted |-> {}, idx |-> 0, GCAware |-> FALSE,
     weights |-> [s \in ServerIdx |-> 0]]

\* A goroutine slot; resultChan is the buffer of the result channel of the
\* RequestTask that last used the slot (nobody receives from it here).
FreeGoroutine ==
    [pc |-> "free", server |-> 0, taskSize |-> 0, sync |-> FALSE,
     resultChan |-> <<>>]

Init ==
    /\ Servers = [s \in ServerIdx |-> NewServer]
    /\ currentServerIndex = 0
    /\ mu = FALSE
    /\ IsActive = TRUE
    /\ CurrentPolicy = ZeroPolicy
    /\ caller = IdleCaller
    /\ goroutines = [g \in GoIds |-> FreeGoroutine]
    /\ call = NoCall
    /\ dirty = {}
    /\ now = 0
    /\ snapshotTasks = [s \in ServerIdx |-> {}]
    /\ analysisTasks = [s \in ServerIdx |-> {}]

\* getCurrentMaGCThreshold (l.TRINI is set by StartTRINI before any call)
getCurrentMaGCThreshold == CurrentPolicy.MaGCThreshold

\* The switch of GetServerGCAware: an unknown algorithm runs GC-RR.
SelectorOf(algorithm) ==
    IF algorithm \in {"RR", "RAN", "WRR", "WRAN"} THEN algorithm ELSE "RR"

\* The server the caller's loop is at.
serverIndex(c) ==
    CASE c.fn = "Plain" -> (c.startIndex + c.i) % NumServers
      [] c.fn = "RR" -> (c.startIndex + c.fTries) % NumServers
      [] OTHER -> c.i % NumServers

\* A replenishment that does not wait for the weights to be used up.
resetRuntimeWeightsAlways(S) == [s \in ServerIdx |-> [S[s] EXCEPT !.Weights = 1]]

\* resetRuntimeWeights, run when every getRuntimeWeight() is 0.
resetRuntimeWeights(S) ==
    IF \A s \in ServerIdx : S[s].Weights = 0
    THEN [s \in ServerIdx |-> [S[s] EXCEPT !.Weights = 1]]
    ELSE S

\* GC-WRR's walk from index i (wrapping at len(l.Servers)) over the servers
\* whose runtime weight is 0, to the next one with a positive weight.
NextWeighted(S, i) ==
    LET k == CHOOSE k \in 0 .. (NumServers - 1) :
                 /\ S[(i + k) % NumServers].Weights > 0
                 /\ \A j \in 0 .. (k - 1) : S[(i + j) % NumServers].Weights = 0
    IN  (i + k) % NumServers

\* A selection that takes no unit of weight.
keepRuntimeWeight(S, s) == S

decrementRuntimeWeight(S, s) ==
    [S EXCEPT ![s].Weights = IF @ > 0 THEN @ - 1 ELSE @]

\* A failed candidate whose unit of weight is not given back.
forgetRuntimeWeight(S, s) == S

incrementRuntimeWeight(S, s) == [S EXCEPT ![s].Weights = @ + 1]

\* return, with the deferred l.mu.Unlock()
Return(c, S, r) ==
    /\ caller' = [c EXCEPT !.pc = "returned", !.result = r]
    /\ Servers' = S
    /\ mu' = FALSE

\* A GC-aware selector calls l.GetServerForTask while it holds l.mu.
CallPlainLocked(c, S, via) ==
    /\ caller' = [c EXCEPT !.pc = "lock", !.fn = "Plain", !.via = via]
    /\ Servers' = S
    /\ UNCHANGED <<mu, currentServerIndex>>

\* GC-WRR: go to the next server with a positive runtime weight and take one
\* unit of it before the tests.
WRRNext(c, S) ==
    LET n == NextWeighted(S, c.i)
    IN  /\ caller' = [c EXCEPT !.pc = "avail", !.i = n]
        /\ Servers' = decrementRuntimeWeight(S, n)
        /\ UNCHANGED <<mu, currentServerIndex>>

\* GC-RAN and GC-WRAN: the end of a pass over l.Servers.
EndOfPass(c, S) ==
    LET empty == IF c.fn = "WRAN"
                 THEN c.totalWeight = 0 \/ Len(c.availableServers) = 0
                 ELSE Len(c.availableServers) = 0
    IN  IF ~empty
        THEN /\ caller' = [c EXCEPT !.pc = "pick"]
             /\ Servers' = S
             /\ UNCHANGED <<mu, currentServerIndex>>
        ELSE IF ~c.escape
        THEN /\ caller' = [c EXCEPT !.pc = "avail", !.escape = TRUE, !.i = 0,
                                    !.availableServers = <<>>, !.totalWeight = 0]
             /\ Servers' = S
             /\ UNCHANGED <<mu, currentServerIndex>>
        ELSE Return(c, S, Nil) /\ UNCHANGED currentServerIndex

\* GC-RAN and GC-WRAN: the next server of the range loop.
Advance(c, S) ==
    IF c.i + 1 < NumServers
    THEN /\ caller' = [c EXCEPT !.pc = "avail", !.i = @ + 1]
         /\ Servers' = S
         /\ UNCHANGED <<mu, currentServerIndex>>
    ELSE EndOfPass(c, S)

\* The server at the loop's index failed a test.
Reject(c, S) ==
    CASE c.fn = "Plain" ->
            IF c.i + 1 < NumServers
            THEN /\ caller' = [c EXCEPT !.pc = "avail", !.i = @ + 1]
                 /\ Servers' = S
                 /\ UNCHANGED <<mu, currentServerIndex>>
            ELSE Return(c, S, Nil) /\ UNCHANGED currentServerIndex
      [] c.fn = "RR" ->
            IF c.fTries + 1 < NumServers
            THEN /\ caller' = [c EXCEPT !.pc = "avail", !.fTries = @ + 1]
                 /\ Servers' = S
                 /\ UNCHANGED <<mu, currentServerIndex>>
            ELSE CallPlainLocked([c EXCEPT !.fTries = @ + 1], S, "escape")
      [] c.fn = "WRR" ->
            LET S1 == incrementRuntimeWeight(S, serverIndex(c))
                c1 == [c EXCEPT !.i = @ + 1, !.fTries = @ + 1]
            IN  IF c1.fTries < NumServers
                THEN WRRNext(c1, S1)
                ELSE CallPlainLocked(c1, S1, "escape")
      [] OTHER -> Advance(c, S)

\* A selection that leaves the cursor where it is.
AcceptKeepCursor(c, S) ==
    Return(c, S, serverIndex(c)) /\ UNCHANGED currentServerIndex

\* The server at the loop's index passed every test of its selector.
Accept(c, S) ==
    LET s == serverIndex(c)
    IN  CASE c.fn \in {"Plain", "RR"} ->
                /\ currentServerIndex' = (s + 1) % NumServers
                /\ Return(c, S, s)
          [] c.fn = "WRR" -> Return(c, S, s) /\ UNCHANGED currentServerIndex
          [] OTHER ->
                Advance([c EXCEPT !.availableServers = Append(@, s),
                                  !.totalWeight = @ + S[s].Weights], S)

\* Sum of the weights of the first k servers of a list.
RECURSIVE WeightOfPrefix(_, _, _)
WeightOfPrefix(S, list, k) ==
    IF k = 0 THEN 0 ELSE WeightOfPrefix(S, list, k - 1) + S[list[k]].Weights

\* GC-WRAN's bucket walk: the first server whose cumulated weight exceeds
\* randomWeight, else ("should not reach here") the first of the list.
WeightedPick(S, list, randomWeight) ==
    LET hits == {k \in 1 .. Len(list) : randomWeight < WeightOfPrefix(S, list, k)}
    IN  IF hits # {}
        THEN list[CHOOSE k \in hits : \A j \in hits : k <= j]
        ELSE list[1]

\* ----------------------------------------------------- the caller's steps
InCall == caller.pc # "idle"

\* What a call starts from: the servers that pass IsAvailable and the
\* capacity test for the task, those IsMaGCPredicted holds of, the cursor and
\* the policy's GCAware, the runtime weights.
Snapshot(taskSize) ==
    [admissible |-> {s \in ServerIdx : /\ IsAvailable(Servers[s])
                                        /\ HasCapacity(Servers[s], taskSize)},
     predicted |-> {s \in ServerIdx :
                      IsMaGCPredicted(Servers[s], getCurrentMaGCThreshold)},
     idx |-> currentServerIndex,
     GCAware |-> CurrentPolicy.GCAware,
     weights |-> [s \in ServerIdx |-> Servers[s].Weights]]

MayCall == \A s \in ServerIdx : Servers[s].GCCount < MaxGC

\* GetServerGCAware: the entry test of TRINI.IsActive and the switch on
\* CurrentPolicy.Algorithm, both read without l.mu.
GetServerGCAware(taskSize) ==
    /\ caller.pc = "idle"
    /\ MayCall
    /\ caller' = [IdleCaller EXCEPT
                    !.pc = "lock", !.taskSize = taskSize,
                    !.fn = IF IsActive THEN SelectorOf(CurrentPolicy.Algorithm)
                           ELSE "Plain",
                    !.via = IF IsActive THEN "policy" ELSE "entry"]
    /\ call' = Snapshot(taskSize)
    /\ dirty' = {}
    /\ UNCHANGED <<Servers, currentServerIndex, mu, IsActive, CurrentPolicy, goroutines>>
    /\ UNCHANGED <<now, snapshotTasks, analysisTasks>>

\* GetServerForTask called directly, as handleTask (main.go) and submitTask
\* (cmd/backend-server/main.go) do.
GetServerForTask(taskSize) ==
    /\ caller.pc = "idle"
    /\ MayCall
    /\ caller' = [IdleCaller EXCEPT !.pc = "lock", !.taskSize = taskSize,
                                    !.fn = "Plain", !.via = "direct"]
    /\ call' = Snapshot(taskSize)
    /\ dirty' = {}
    /\ UNCHANGED <<Servers, currentServerIndex, mu, IsActive, CurrentPolicy, goroutines>>
    /\ UNCHANGED <<now, snapshotTasks, analysisTasks>>

\* l.mu.Lock() at the head of a selector, then what precedes its loop.
Lock ==
    /\ caller.pc = "lock"
    /\ ~mu
    /\ mu' = TRUE
    /\ UNCHANGED <<currentServerIndex, IsActive, CurrentPolicy, goroutines, call, dirty>>
    /\ UNCHANGED <<now, snapshotTasks, analysisTasks>>
    /\ CASE caller.fn = "Plain" ->
              /\ caller' = [caller EXCEPT !.pc = "avail",
                                          !.startIndex = currentServerIndex, !.i = 0]
              /\ UNCHANGED Servers
         [] caller.fn # "Plain" /\ ~IsActive ->
              \* "Fallback to regular algorithm", with l.mu held
              /\ caller' = [caller EXCEPT !.pc = "lock", !.fn = "Plain",
                                          !.via = "inactive"]
              /\ UNCHANGED Servers
         [] caller.fn = "RR" /\ IsActive ->
              /\ caller' = [caller EXCEPT !.pc = "avail",
                                          !.startIndex = currentServerIndex,
                                          !.fTries = 0]
              /\ UNCHANGED Servers
         [] caller.fn = "WRR" /\ IsActive ->
              LET S == resetRuntimeWeights(Servers)
                  n == NextWeighted(S, 0)
              IN  /\ caller' = [caller EXCEPT !.pc = "avail", !.i = n, !.fTries = 0]
                  /\ Servers' = decrementRuntimeWeight(S, n)
         [] caller.fn \in {"RAN", "WRAN"} /\ IsActive ->
              /\ caller' = [caller EXCEPT !.pc = "avail", !.i = 0,
                                          !.availableServers = <<>>,
                                          !.totalWeight = 0, !.escape = FALSE]
              /\ UNCHANGED Servers

\* server.IsAvailable()
ProbeAvailable ==
    /\ caller.pc = "avail"
    /\ LET s == serverIndex(caller)
       IN  /\ dirty' = dirty \ {s}
           /\ IF IsAvailable(Servers[s])
              THEN /\ caller' = [caller EXCEPT !.pc = "cap"]
                   /\ UNCHANGED <<Servers, mu, currentServerIndex>>
              ELSE Reject(caller, Servers)
    /\ UNCHANGED <<IsActive, CurrentPolicy, goroutines, call>>
    /\ UNCHANGED <<now, snapshotTasks, analysisTasks>>

\* server.CanHandleTaskSize(len(taskInput)): the test
ProbeCapacity ==
    /\ caller.pc = "cap"
    /\ LET s == serverIndex(caller)
       IN  IF HasCapacity(Servers[s], caller.taskSize)
           THEN IF caller.fn = "Plain" \/ caller.escape
                THEN Accept(caller, Servers)
                ELSE /\ caller' = [caller EXCEPT !.pc = "guard"]
                     /\ UNCHANGED <<Servers, mu, currentServerIndex>>
           ELSE /\ caller' = [caller EXCEPT !.pc = "gcBegin"]
                /\ UNCHANGED <<Servers, mu, currentServerIndex>>
    /\ UNCHANGED <<IsActive, CurrentPolicy, goroutines, call, dirty>>
    /\ UNCHANGED <<now, snapshotTasks, analysisTasks>>

\* server.CanHandleTaskSize: the blocking s.CollectGCTasks() of a failed test,
\* up to its sleep
ProbeGCBegin ==
    /\ caller.pc = "gcBegin"
    /\ LET s == serverIndex(caller)
       IN  IF Servers[s].isCollectingGCTasks
           THEN Reject(caller, Servers)
           ELSE /\ caller' = [caller EXCEPT !.pc = "gcEnd"]
                /\ Servers' = [Servers EXCEPT ![s] = CollectGCBegin(@)]
                /\ UNCHANGED <<mu, currentServerIndex>>
    /\ UNCHANGED <<IsActive, CurrentPolicy, goroutines, call, dirty>>
    /\ UNCHANGED <<now, snapshotTasks, analysisTasks>>

\* ... and after the sleep; CanHandleTaskSize then returns false
ProbeGCEnd ==
    /\ caller.pc = "gcEnd"
    /\ LET s == serverIndex(caller)
       IN  \E gcDuration \in GCDurations(Servers[s]) :
               Reject(caller, [Servers EXCEPT ![s] = CollectGCEnd(@, gcDuration)])
    /\ UNCHANGED <<IsActive, CurrentPolicy, goroutines, call, dirty>>
    /\ UNCHANGED <<now, snapshotTasks, analysisTasks>>

\* server.IsMaGCPredicted(threshold)
GCGuard ==
    /\ caller.pc = "guard"
    /\ IF IsMaGCPredicted(Servers[serverIndex(caller)], getCurrentMaGCThreshold)
       THEN Reject(caller, Servers)
       ELSE Accept(caller, Servers)
    /\ UNCHANGED <<IsActive, CurrentPolicy, goroutines, call, dirty>>
    /\ UNCHANGED <<now, snapshotTasks, analysisTasks>>

\* rand.Intn over the collected servers (GC-RAN) or their weights (GC-WRAN)
Pick ==
    /\ caller.pc = "pick"
    /\ IF caller.fn = "WRAN"
       THEN \E randomWeight \in 0 .. (caller.totalWeight - 1) :
                Return(caller, Servers,
                       WeightedPick(Servers, caller.availableServers, randomWeight))
       ELSE \E k \in 1 .. Len(caller.availableServers) :
                Return(caller, Servers, caller.availableServers[k])
    /\ UNCHANGED <<currentServerIndex, IsActive, CurrentPolicy, goroutines, call, dirty>>
    /\ UNCHANGED <<now, snapshotTasks, analysisTasks>>

\* srv.RequestTask(input): the 300 ms sleep, then the goroutine is started
RequestTask ==
    /\ caller.pc = "returned"
    /\ caller.result # Nil
    /\ \E g \in GoIds :
          /\ goroutines[g].pc = "free"
          /\ goroutines' = [goroutines EXCEPT ![g] =
                               [pc |-> "avail", server |-> caller.result,
                                taskSize |-> caller.taskSize, sync |-> FALSE,
                                resultChan |-> <<>>]]
    /\ caller' = IdleCaller
    /\ call' = NoCall
    /\ dirty' = {}
    /\ UNCHANGED <<Servers, currentServerIndex, mu, IsActive, CurrentPolicy>>
    /\ UNCHANGED <<now, snapshotTasks, analysisTasks>>

\* "No server can handle this task": the caller reports it and goes on
NoServer ==
    /\ caller.pc = "returned"
    /\ caller.result = Nil
    /\ caller' = IdleCaller
    /\ call' = NoCall
    /\ dirty' = {}
    /\ UNCHANGED <<Servers, currentServerIndex, mu, IsActive, CurrentPolicy, goroutines>>
    /\ UNCHANGED <<now, snapshotTasks, analysisTasks>>

\* ------------------------------------- RequestTask's goroutine, and the MaGC
Touch(s) == dirty' = IF InCall THEN dirty \cup {s} ELSE dirty

\* A send that leaves the channel as it is.
SendNothing(t, status) == t

\* resultChan <- &Task{Status: status}
Send(t, status) == [t EXCEPT !.resultChan = Append(@, status)]

\* A send goes through when the buffer has room; it blocks otherwise.
CanSend(t) == Len(t.resultChan) < ResultChanCap

\* The goroutine returns; its channel stays as it is.
FinishedWith(g, t) ==
    goroutines' = [goroutines EXCEPT ![g] =
                      [FreeGoroutine EXCEPT !.resultChan = t.resultChan]]

Finished(g) == FinishedWith(g, goroutines[g])

\* The "rejected" result is sent, the goroutine returns.
Rejected(g) ==
    /\ CanSend(goroutines[g])
    /\ FinishedWith(g, Send(goroutines[g], "rejected"))

\* !s.IsAvailable() -> rejected
TaskAvailable(g) ==
    /\ goroutines[g].pc = "avail"
    /\ IF IsAvailable(Servers[goroutines[g].server])
       THEN goroutines' = [goroutines EXCEPT ![g].pc = "cap"]
       ELSE Rejected(g)
    /\ UNCHANGED <<Servers, currentServerIndex, mu, IsActive, CurrentPolicy, caller, call, dirty>>
    /\ UNCHANGED <<now, snapshotTasks, analysisTasks>>

\* !s.canHandleTask(input): the test
TaskCapacity(g) ==
    /\ goroutines[g].pc = "cap"
    /\ IF HasCapacity(Servers[goroutines[g].server], goroutines[g].taskSize)
       THEN goroutines' = [goroutines EXCEPT ![g].pc = "handle"]
       ELSE goroutines' = [goroutines EXCEPT ![g].pc = "gcBegin", ![g].sync = TRUE,
                                             ![g].taskSize = 0]
    /\ UNCHANGED <<Servers, currentServerIndex, mu, IsActive, CurrentPolicy, caller, call, dirty>>
    /\ UNCHANGED <<now, snapshotTasks, analysisTasks>>

\* s.handleTask(input) and the send of its result; what follows is the read
\* of the usage that decides the MaGC
TaskHandle(g) ==
    /\ goroutines[g].pc = "handle"
    /\ CanSend(goroutines[g])
    /\ LET s == goroutines[g].server
       IN  /\ Servers' = [Servers EXCEPT ![s] = handleTask(@, goroutines[g].taskSize)]
           /\ Touch(s)
    /\ goroutines' = [goroutines EXCEPT ![g] =
                          [Send(goroutines[g], "completed") EXCEPT !.pc = "post"]]
    /\ UNCHANGED <<currentServerIndex, mu, IsActive, CurrentPolicy, caller, call>>
    /\ UNCHANGED <<now, snapshotTasks, analysisTasks>>

\* memoryUsage >= gcThreshold -> go s.CollectGCTasks()
TaskPost(g) ==
    /\ goroutines[g].pc = "post"
    /\ IF NeedsGC(Servers[goroutines[g].server])
       THEN goroutines' = [goroutines EXCEPT ![g].pc = "gcBegin", ![g].sync = FALSE,
                                             ![g].taskSize = 0]
       ELSE Finished(g)
    /\ UNCHANGED <<Servers, currentServerIndex, mu, IsActive, CurrentPolicy, caller, call, dirty>>
    /\ UNCHANGED <<now, snapshotTasks, analysisTasks>>

\* CollectGCTasks up to its sleep (called by canHandleTask, or started by go)
GCBegin(g) ==
    /\ goroutines[g].pc = "gcBegin"
    /\ LET s == goroutines[g].server
       IN  IF Servers[s].isCollectingGCTasks
           THEN /\ IF goroutines[g].sync THEN Rejected(g) ELSE Finished(g)
                /\ UNCHANGED <<Servers, dirty>>
           ELSE /\ goroutines' = [goroutines EXCEPT ![g].pc = "gcEnd"]
                /\ Servers' = [Servers EXCEPT ![s] = CollectGCBegin(@)]
                /\ Touch(s)
    /\ UNCHANGED <<currentServerIndex, mu, IsActive, CurrentPolicy, caller, call>>
    /\ UNCHANGED <<now, snapshotTasks, analysisTasks>>

\* CollectGCTasks after its sleep
GCEnd(g) ==
    /\ goroutines[g].pc = "gcEnd"
    /\ LET s == goroutines[g].server
       IN  /\ \E gcDuration \in GCDurations(Servers[s]) :
                  Servers' = [Servers EXCEPT ![s] = CollectGCEnd(@, gcDuration)]
           /\ Touch(s)
    /\ IF goroutines[g].sync THEN Rejected(g) ELSE Finished(g)
    /\ UNCHANGED <<currentServerIndex, mu, IsActive, CurrentPolicy, caller, call>>
    /\ UNCHANGED <<now, snapshotTasks, analysisTasks>>

\* ------------------------------------------------------- the other callers
\* SetLoadBalancingPolicy (updateTRINIPolicy, setPolicyFromArgs, AdaptPolicy)
SetLoadBalancingPolicy(policy) ==
    /\ ~mu
    /\ CurrentPolicy' = policy
    /\ UNCHANGED <<Servers, currentServerIndex, mu, IsActive, caller, goroutines, call, dirty>>
    /\ UNCHANGED <<now, snapshotTasks, analysisTasks>>

\* toggleTRINI, "trini on" / "trini off": an unsynchronised write
ToggleTRINI(active) ==
    /\ IsActive' = active
    /\ UNCHANGED <<Servers, currentServerIndex, mu, CurrentPolicy, caller, goroutines, call, dirty>>
    /\ UNCHANGED <<now, snapshotTasks, analysisTasks>>

\* analyzeAndAdapt stores a forecast; the passing of time moves what
\* IsMaGCPredicted reads of it.
ForecastChange(s, f) ==
    /\ Servers' = [Servers EXCEPT ![s].LastMaGCForecast = f]
    /\ UNCHANGED <<currentServerIndex, mu, IsActive, CurrentPolicy, caller, goroutines, call, dirty>>
    /\ UNCHANGED <<now, snapshotTasks, analysisTasks>>

\* ------------------------------------------------------------ the monitor
\* A snapshot that reads usedMemory outside the critical section that reads
\* the generations: the total of a server not yet charged.
TornSnapshot(s, timestamp) ==
    [Timestamp |-> timestamp, YoungGenUsed |-> s.YoungGenUsed,
     OldGenUsed |-> s.OldGenUsed, TotalMemUsed |-> 0,
     GCCount |-> s.GCCount, MaGCDuration |-> s.MaGCDuration,
     IsCollectingGC |-> s.isCollectingGCTasks]

\* The GCSnapshot that collectGCSnapshot builds under s.mu (the fields it
\* copies from the server's constants are left out).
GCSnapshot(s, timestamp) ==
    [Timestamp |-> timestamp, YoungGenUsed |-> s.YoungGenUsed,
     OldGenUsed |-> s.OldGenUsed, TotalMemUsed |-> s.usedMemory,
     GCCount |-> s.GCCount, MaGCDuration |-> s.MaGCDuration,
     IsCollectingGC |-> s.isCollectingGCTasks]

\* An append that keeps everything.
AppendAll(history, snapshot) == Append(history, snapshot)

\* s.GCHistory = append(s.GCHistory, snapshot), then the cut to the last 100.
AppendSnapshot(history, snapshot) ==
    LET h == Append(history, snapshot)
    IN  IF Len(h) > HistoryCap THEN Tail(h) ELSE h

\* A timestamp taken when the goroutine is started.
TimeOfStart(t, startedAt) == startedAt

\* Timestamp: time.Now(), read inside the critical section at time t by a
\* goroutine started at startedAt.
SnapshotTime(t, startedAt) == t

\* monitoringLoop: a tick of the MonitorInterval ticker; with TRINI active it
\* starts one collectGCSnapshot goroutine per server.
monitoringLoop ==
    /\ now < HistoryCap + MaxTicks
    /\ now' = now + 1
    /\ snapshotTasks' = IF IsActive
                        THEN [s \in ServerIdx |-> snapshotTasks[s] \cup {now + 1}]
                        ELSE snapshotTasks
    /\ UNCHANGED <<Servers, currentServerIndex, mu, IsActive, CurrentPolicy,
                   caller, goroutines, call, dirty, analysisTasks>>

\* collectGCSnapshot: one critical section of s.mu, run by any of the
\* started goroutines.
collectGCSnapshot(s) ==
    /\ \E startedAt \in snapshotTasks[s] :
          /\ snapshotTasks' = [snapshotTasks EXCEPT ![s] = @ \ {startedAt}]
          /\ Servers' = [Servers EXCEPT ![s].GCHistory =
                            AppendSnapshot(@, GCSnapshot(Servers[s],
                                                         SnapshotTime(now, startedAt)))]
    /\ UNCHANGED <<currentServerIndex, mu, IsActive, CurrentPolicy, caller,
                   goroutines, call, dirty, now, analysisTasks>>

\* ----------------------------------------------------------- the analyzer
FamilyIDs == {"short-magc", "medium-magc", "long-magc", "default"}

\* TRINI.ProgramFamilies as initializeDefaultFamilies fills it: the
\* evaluation criteria (Nil: the key is absent) and the policy.
ProgramFamilies(id) ==
    CASE id = "short-magc" ->
            [max_magc_duration |-> 500, min_magc_duration |-> Nil, min_samples |-> 5,
             ForecastWindowSize |-> 15,
             Policy |-> [Algorithm |-> "RR", GCAware |-> TRUE, MaGCThreshold |-> 1000]]
      [] id = "medium-magc" ->
            [max_magc_duration |-> 2000, min_magc_duration |-> 500, min_samples |-> 5,
             ForecastWindowSize |-> 25,
             Policy |-> [Algorithm |-> "WRR", GCAware |-> TRUE, MaGCThreshold |-> 3000]]
      [] id = "long-magc" ->
            [max_magc_duration |-> Nil, min_magc_duration |-> 2000, min_samples |-> 3,
             ForecastWindowSize |-> 35,
             Policy |-> [Algorithm |-> "WRR", GCAware |-> TRUE, MaGCThreshold |-> 5000]]
      [] OTHER ->
            [max_magc_duration |-> Nil, min_magc_duration |-> Nil, min_samples |-> 0,
             ForecastWindowSize |-> 10,
             Policy |-> [Algorithm |-> "RR", GCAware |-> FALSE,
                         MaGCThreshold |-> ThresholdMs]]

\* The positive MaGCDuration values of the (at most) 10 most recent snapshots
\* that have one.
RecentDurations(history) ==
    LET positive == SelectSeq(history, LAMBDA snapshot : snapshot.MaGCDuration > 0)
        first == IF Len(positive) > 10 THEN Len(positive) - 9 ELSE 1
    IN  [k \in 1 .. (Len(positive) - first + 1) |->
            positive[first + k - 1].MaGCDuration]

RECURSIVE SumOf(_, _)
SumOf(durations, k) ==
    IF k = 0 THEN 0 ELSE SumOf(durations, k - 1) + durations[k]

\* avgDuration: the integer mean of a non-empty list
AvgDuration(durations) == SumOf(durations, Len(durations)) \div Len(durations)

\* The two tests of the mean against the criteria that are present.
MatchesCriteria(criteria, avgDuration) ==
    /\ ~(criteria.max_magc_duration # Nil /\ avgDuration > criteria.max_magc_duration)
    /\ ~(criteria.min_magc_duration # Nil /\ avgDuration < criteria.min_magc_duration)

\* evaluateCurrentFamily
evaluateCurrentFamily(history, family) ==
    LET criteria == ProgramFamilies(family)
        recentDurations == RecentDurations(history)
    IN  IF Len(history) < criteria.min_samples
        THEN Len(history) = 0
        ELSE IF Len(recentDurations) = 0
        THEN TRUE
        ELSE MatchesCriteria(criteria, AvgDuration(recentDurations))

\* findBestFamily: the families it can return. It ranges over a Go map, whose
\* iteration order is not fixed, and returns the first family that matches.
findBestFamily(history) ==
    LET recentDurations == RecentDurations(history)
        matching == {id \in FamilyIDs \ {"default"} :
                        /\ ~(Len(recentDurations) < ProgramFamilies(id).min_samples)
                        /\ MatchesCriteria(ProgramFamilies(id),
                                           AvgDuration(recentDurations))}
    IN  IF Len(recentDurations) = 0 \/ matching = {}
        THEN {"default"}
        ELSE matching

\* A run of analyzeAndAdapt: where it is, the family it is about to assign,
\* its copy of the history.
AnalysisTask(pc, newFamily, gcHistory) ==
    [pc |-> pc, newFamily |-> newFamily, gcHistory |-> gcHistory]

StartedAnalysis == AnalysisTask("start", "", <<>>)

\* analysisLoop: a tick of the AnalysisInterval ticker with TRINI active
\* starts one analyzeAndAdapt goroutine per server.
analysisLoop ==
    /\ IsActive
    /\ analysisTasks' = [s \in ServerIdx |-> analysisTasks[s] \cup {StartedAnalysis}]
    /\ UNCHANGED <<Servers, currentServerIndex, mu, IsActive, CurrentPolicy,
                   caller, goroutines, call, dirty, now, snapshotTasks>>

\* analyzeAndAdapt, first critical section: the copy of the history and of
\* the family, then the evaluation on the copy.
AnalyzeCopy(s) ==
    /\ StartedAnalysis \in analysisTasks[s]
    /\ LET gcHistory == Servers[s].GCHistory
           currentFamily == Servers[s].CurrentFamily
           rest == analysisTasks[s] \ {StartedAnalysis}
       IN  IF Len(gcHistory) < 3
           THEN analysisTasks' = [analysisTasks EXCEPT ![s] = rest]
           ELSE IF evaluateCurrentFamily(gcHistory, currentFamily)
           THEN analysisTasks' = [analysisTasks EXCEPT ![s] =
                                     rest \cup {AnalysisTask("forecast", "", gcHistory)}]
           ELSE \E newFamily \in findBestFamily(gcHistory) :
                   analysisTasks' = [analysisTasks EXCEPT ![s] =
                       rest \cup {IF newFamily # currentFamily
                                  THEN AnalysisTask("adapt", newFamily, gcHistory)
                                  ELSE AnalysisTask("forecast", "", gcHistory)}]
    /\ UNCHANGED <<Servers, currentServerIndex, mu, IsActive, CurrentPolicy,
                   caller, goroutines, call, dirty, now, snapshotTasks>>

\* s.CurrentFamily = newFamily
AnalyzeAdapt(s) ==
    /\ \E t \in analysisTasks[s] :
          /\ t.pc = "adapt"
          /\ Servers' = [Servers EXCEPT ![s].CurrentFamily = t.newFamily]
          /\ analysisTasks' = [analysisTasks EXCEPT ![s] =
                (@ \ {t}) \cup {AnalysisTask("forecast", "", t.gcHistory)}]
    /\ UNCHANGED <<currentServerIndex, mu, IsActive, CurrentPolicy,
                   caller, goroutines, call, dirty, now, snapshotTasks>>

\* A confidence that grows with the window without limit.
confidenceUncapped(len, timeSinceLatestS) ==
    IF len < 3
    THEN 0
    ELSE IF timeSinceLatestS > ForecastMaxAgeS THEN len ELSE 2 * len

\* calculateForecastConfidence on a window of len snapshots whose last one is
\* timeSinceLatestS seconds old, in units of 1/ConfidenceScale.
calculateForecastConfidence(len, timeSinceLatestS) ==
    IF len < 3
    THEN 0
    ELSE LET baseConfidence == Min(len * (ConfidenceScale \div FullWindow),
                                   ConfidenceScale)
         IN  IF timeSinceLatestS > ForecastMaxAgeS
             THEN baseConfidence \div 2
             ELSE baseConfidence

\* generateMaGCForecast: the length of recentHistory, the last windowSize
\* snapshots of the copy, for the family the server is in at that time.
windowSize(history, family) ==
    Min(ProgramFamilies(family).ForecastWindowSize, Len(history))

\* time.Since(latestSnapshot.Timestamp) in seconds at time t.
TimeSinceLatestS(history, t) ==
    (t - history[Len(history)].Timestamp) * MonitorIntervalS

\* recentHistory := history[len(history)-windowSize:]
recentHistory(history, family) ==
    SubSeq(history, Len(history) - windowSize(history, family) + 1,
           Len(history))

\* The sums of a least-squares fit y = slope*x + intercept over n points:
\* slope = slopeNum / denominator with slopeNum = n*sumXY - sumX*sumY and
\* denominator = n*sumX2 - sumX*sumX. The code adds float64 values that are
\* whole numbers, so the sums are exact and the denominator is below 1e-10
\* exactly when it is 0.
LeastSquares(xs, ys) ==
    LET n == Len(xs)
        sumX == SumOf(xs, n)
        sumY == SumOf(ys, n)
        sumXY == SumOf([k \in 1 .. n |-> xs[k] * ys[k]], n)
        sumX2 == SumOf([k \in 1 .. n |-> xs[k] * xs[k]], n)
    IN  [n |-> n, sumX |-> sumX, sumY |-> sumY,
         slopeNum |-> n * sumXY - sumX * sumY,
         denominator |-> n * sumX2 - sumX * sumX]

\* forecastYoungGenThreshold: YoungGen = a*OldGen + b over the window, taken
\* at OldGen = 0.9*OldGenMax; 0 from fewer than 3 snapshots, from a zero
\* denominator and from a negative value; int() drops the fraction. The
\* quotient is computed exactly (the denominator of a fit is never negative).
forecastYoungGenThreshold(history) ==
    IF Len(history) < 3
    THEN 0
    ELSE LET r == LeastSquares([k \in 1 .. Len(history) |-> history[k].OldGenUsed],
                               [k \in 1 .. Len(history) |-> history[k].YoungGenUsed])
             num == r.slopeNum * 9 * OldGenMax * r.n
                    + 10 * (r.sumY * r.denominator - r.slopeNum * r.sumX)
             den == 10 * r.denominator * r.n
         IN  IF r.denominator = 0 THEN 0
             ELSE IF num < 0 THEN 0
             ELSE num \div den

\* forecastTimeToMaGC at time t, in ms: Time = a*YoungGenUsed + b over the
\* window with the times counted from its first snapshot, taken at the
\* threshold, minus the time since that snapshot; 0 from fewer than 3
\* snapshots, from a zero denominator and from a negative value; int64()
\* drops the fraction. Times are in monitoring intervals until the last step.
forecastTimeToMaGC(history, youngGenThreshold, t) ==
    IF Len(history) < 3
    THEN 0
    ELSE LET baseTime == history[1].Timestamp
             r == LeastSquares([k \in 1 .. Len(history) |-> history[k].YoungGenUsed],
                               [k \in 1 .. Len(history) |->
                                    history[k].Timestamp - baseTime])
             den == r.denominator * r.n
             num == r.slopeNum * youngGenThreshold * r.n
                    + (r.sumY * r.denominator - r.slopeNum * r.sumX)
                    - (t - baseTime) * den
         IN  IF r.denominator = 0 THEN 0
             ELSE IF num <= 0 THEN 0
             ELSE (num \div den) * MonitorIntervalS * 1000
                  + ((num % den) * MonitorIntervalS * 1000) \div den

\* generateMaGCForecast on a copy of the history at time t: nil from fewer
\* than 5 snapshots, from a threshold that is not positive and from a time
\* that is not positive; otherwise a forecast created now for now + timeToMaGC
\* with the confidence of the window.
generateMaGCForecast(history, family, t) ==
    IF Len(history) < 5
    THEN NoForecast
    ELSE LET recent == recentHistory(history, family)
             youngGenThreshold == forecastYoungGenThreshold(recent)
             timeToMaGC == forecastTimeToMaGC(recent, youngGenThreshold, t)
         IN  IF youngGenThreshold <= 0 THEN NoForecast
             ELSE IF timeToMaGC <= 0 THEN NoForecast
             ELSE [set |-> TRUE, untilUs |-> timeToMaGC * UsPerMs, ageS |-> 0,
                   Confidence |-> calculateForecastConfidence(
                                      Len(recent), TimeSinceLatestS(recent, t))]

\* generateMaGCForecast on the copy, and the store of a forecast that is not
\* nil.
AnalyzeForecast(s) ==
    /\ \E t \in analysisTasks[s] :
          /\ t.pc = "forecast"
          /\ analysisTasks' = [analysisTasks EXCEPT ![s] = @ \ {t}]
          /\ LET forecast == generateMaGCForecast(t.gcHistory,
                                                  Servers[s].CurrentFamily, now)
             IN  Servers' = IF forecast.set
                            THEN [Servers EXCEPT ![s].LastMaGCForecast = forecast]
                            ELSE Servers
    /\ UNCHANGED <<currentServerIndex, mu, IsActive, CurrentPolicy,
                   caller, goroutines, call, dirty, now, snapshotTasks>>

analyzeAndAdapt(s) ==
    \/ AnalyzeCopy(s)
    \/ AnalyzeAdapt(s)
    \/ AnalyzeForecast(s)

\* AdaptPolicy's loop over l.Servers from index k on: familyCount, maxCount
\* and dominantFamily ("" for nil) after it.
RECURSIVE TallyFrom(_, _, _, _)
TallyFrom(k, familyCount, maxCount, dominantFamily) ==
    IF k = NumServers
    THEN dominantFamily
    ELSE LET id == Servers[k].CurrentFamily
             count == familyCount[id] + 1
         IN  IF count > maxCount
             THEN TallyFrom(k + 1, [familyCount EXCEPT ![id] = count], count, id)
             ELSE TallyFrom(k + 1, [familyCount EXCEPT ![id] = count], maxCount,
                            dominantFamily)

DominantFamily == TallyFrom(0, [id \in FamilyIDs |-> 0], 0, "")

\* An installation that does not look at the policy.
AnyDominantFamily(id) == id # ""

\* dominantFamily != nil && dominantFamily.Policy.GCAware
InstallsPolicyOf(id) == id # "" /\ ProgramFamilies(id).Policy.GCAware

\* AdaptPolicy, called by a user of the package (nothing in the repository
\* calls it): the tally, then SetLoadBalancingPolicy under l.mu when the
\* dominant family's policy is GC-aware.
AdaptPolicy ==
    /\ caller.pc = "idle"
    /\ ~mu
    /\ caller' = [IdleCaller EXCEPT !.pc = "adapted", !.fn = "AdaptPolicy"]
    /\ CurrentPolicy' =
          IF IsActive /\ InstallsPolicyOf(DominantFamily)
          THEN ProgramFamilies(DominantFamily).Policy
          ELSE CurrentPolicy
    /\ UNCHANGED <<Servers, currentServerIndex, mu, IsActive, goroutines, call,
                   dirty, now, snapshotTasks, analysisTasks>>

\* AdaptPolicy has returned.
AdaptPolicyReturn ==
    /\ caller.pc = "adapted"
    /\ caller' = IdleCaller
    /\ UNCHANGED <<Servers, currentServerIndex, mu, IsActive, CurrentPolicy,
                   goroutines, call, dirty, now, snapshotTasks, analysisTasks>>

CallerStep ==
    \/ Lock
    \/ ProbeAvailable
    \/ ProbeCapacity
    \/ ProbeGCBegin
    \/ ProbeGCEnd
    \/ GCGuard
    \/ Pick
    \/ RequestTask
    \/ NoServer

GoroutineStep ==
    \E g \in GoIds :
        \/ TaskAvailable(g)
        \/ TaskCapacity(g)
        \/ TaskHandle(g)
        \/ TaskPost(g)
        \/ GCBegin(g)
        \/ GCEnd(g)

\* The dispatcher and the workers' goroutines in any interleaving; the policy
\* and the forecasts change between two calls; TRINI stays active.
Next ==
    \/ \E taskSize \in TaskSizes : GetServerGCAware(taskSize)
    \/ \E taskSize \in TaskSizes : GetServerForTask(taskSize)
    \/ CallerStep
    \/ GoroutineStep
    \/ ~InCall /\ \E p \in Policies : SetLoadBalancingPolicy(p)
    \/ ~InCall /\ \E s \in ServerIdx, f \in Forecasts : ForecastChange(s, f)

Spec == Init /\ [][Next]_vars

\* No task of an earlier call is between its tests and its charge.
Quiet == \A g \in GoIds : goroutines[g].pc \in {"free", "gcEnd"}

\* The same steps with the goroutines, the policy and the forecasts moving only
\* between two calls of the dispatcher: a call then runs against the state it
\* started from. TRINI may be switched at any time.
SeqNext ==
    \/ Quiet /\ \E taskSize \in TaskSizes : GetServerGCAware(taskSize)
    \/ Quiet /\ \E taskSize \in TaskSizes : GetServerForTask(taskSize)
    \/ CallerStep
    \/ \E active \in BOOLEAN : ToggleTRINI(active)
    \/ ~InCall /\ GoroutineStep
    \/ ~InCall /\ \E p \in Policies : SetLoadBalancingPolicy(p)
    \/ ~InCall /\ \E s \in ServerIdx, f \in Forecasts : ForecastChange(s, f)

SeqSpec == Init /\ [][SeqNext]_vars

\* The weighted selectors: the calls go through GetServerGCAware under a
\* GC-aware WRR or WRAN policy (the zero policy until the first one is
\* installed); the goroutines move between two calls, the policy and the
\* forecasts when in addition no task is between its tests and its charge.
WeightedPolicies ==
    {p \in Policies : p.Algorithm \in {"WRR", "WRAN"} /\ p.GCAware}

WeightedNext ==
    \/ Quiet /\ \E taskSize \in TaskSizes : GetServerGCAware(taskSize)
    \/ CallerStep
    \/ ~InCall /\ GoroutineStep
    \/ ~InCall /\ Quiet /\ \E p \in WeightedPolicies : SetLoadBalancingPolicy(p)
    \/ ~InCall /\ Quiet /\ \E s \in ServerIdx, f \in Forecasts : ForecastChange(s, f)

WeightedSpec == Init /\ [][WeightedNext]_vars

\* The workers as the two programs drive them: handleTask (main.go) and
\* submitTask call GetServerForTask, then RequestTask; no policy is installed
\* and no forecast is read. Every interleaving of the caller's probes with the
\* goroutines.
WorkerNext ==
    \/ \E taskSize \in TaskSizes : GetServerForTask(taskSize)
    \/ Lock
    \/ ProbeAvailable
    \/ ProbeCapacity
    \/ ProbeGCBegin
    \/ ProbeGCEnd
    \/ RequestTask
    \/ NoServer
    \/ GoroutineStep

WorkerSpec == Init /\ [][WorkerNext]_vars

\* The steps of one goroutine slot.
Executor(g) ==
    \/ TaskAvailable(g)
    \/ TaskCapacity(g)
    \/ TaskHandle(g)
    \/ TaskPost(g)
    \/ GCBegin(g)
    \/ GCEnd(g)

\* WorkerSpec with the scheduler's fairness: a started goroutine is not
\* starved (its steps are sections of s.mu that end, sends on a buffered
\* channel and sleeps), and the sleep of the caller's blocking CollectGCTasks
\* ends.
FairWorkerSpec ==
    /\ WorkerSpec
    /\ \A g \in GoIds : WF_vars(Executor(g))
    /\ WF_vars(ProbeGCEnd)

\* The history of a server that idled through the len monitoring ticks before
\* time HistoryCap.
PastHistory(len) ==
    [k \in 1 .. len |-> GCSnapshot(NewServer, HistoryCap - len + k)]

\* An empty history, one that the next snapshot fills, a full one.
HistoryLens == {0, HistoryCap - 1, HistoryCap}

\* The monitor at time HistoryCap, every server idle with one snapshot for
\* each of its last ticks (TRINI was switched on at different times).
MonitorInit ==
    /\ Servers \in [ServerIdx ->
                      {[NewServer EXCEPT !.GCHistory = PastHistory(len)] :
                          len \in HistoryLens}]
    /\ currentServerIndex = 0
    /\ mu = FALSE
    /\ IsActive = TRUE
    /\ CurrentPolicy = ZeroPolicy
    /\ caller = IdleCaller
    /\ goroutines = [g \in GoIds |-> FreeGoroutine]
    /\ call = NoCall
    /\ dirty = {}
    /\ now = HistoryCap
    /\ snapshotTasks = [s \in ServerIdx |-> {}]
    /\ analysisTasks = [s \in ServerIdx |-> {}]

MonitorNext ==
    \/ monitoringLoop
    \/ \E s \in ServerIdx : collectGCSnapshot(s)

MonitorSpec == MonitorInit /\ [][MonitorNext]_vars

\* A history with the given MaGCDuration values, one snapshot per tick up to
\* time HistoryCap.
DurationHistory(durations) ==
    [k \in 1 .. Len(durations) |->
        [GCSnapshot(NewServer, HistoryCap - Len(durations) + k)
            EXCEPT !.MaGCDuration = durations[k]]]

\* The histories the analyzer is run on: none; five short MaGCs; six MaGCs of
\* 600 and 1500 ms; a snapshot without a MaGC and three MaGCs of the duration
\* CollectGCTasks records.
SampleHistories ==
    {DurationHistory(durations) :
        durations \in {<<>>, <<300, 300, 300, 300, 300>>,
                       <<600, 1500, 600, 1500, 600, 1500>>,
                       <<0, GCDurationMs, GCDurationMs, GCDurationMs>>}}

\* The analyzer as a function of what it reads: GCHistory and CurrentFamily
\* are exported fields of Server, and every server starts with one of the
\* sample histories in one of the families. TRINI is active.
AnalyzerInit ==
    /\ Servers \in [ServerIdx ->
                      {[NewServer EXCEPT !.GCHistory = h, !.CurrentFamily = id] :
                          h \in SampleHistories, id \in FamilyIDs}]
    /\ currentServerIndex = 0
    /\ mu = FALSE
    /\ IsActive = TRUE
    /\ CurrentPolicy = ZeroPolicy
    /\ caller = IdleCaller
    /\ goroutines = [g \in GoIds |-> FreeGoroutine]
    /\ call = NoCall
    /\ dirty = {}
    /\ now = HistoryCap
    /\ snapshotTasks = [s \in ServerIdx |-> {}]
    /\ analysisTasks = [s \in ServerIdx |-> {}]

\* The analyzer's goroutines and calls of AdaptPolicy, in any interleaving.
AnalyzerNext ==
    \/ analysisLoop
    \/ \E s \in ServerIdx : analyzeAndAdapt(s)
    \/ AdaptPolicy
    \/ AdaptPolicyReturn

AnalyzerSpec == AnalyzerInit /\ [][AnalyzerNext]_vars

\* What StartTRINI starts for the analysis: analysisLoop and the goroutines
\* it starts, under the scheduler's fairness (the ticker keeps ticking, a
\* started goroutine is not starved).
AnalysisLoopNext ==
    \/ analysisLoop
    \/ \E s \in ServerIdx : analyzeAndAdapt(s)

AnalysisLoopSpec ==
    /\ AnalyzerInit
    /\ [][AnalysisLoopNext]_vars
    /\ WF_vars(analysisLoop)
    /\ \A s \in ServerIdx : WF_vars(analyzeAndAdapt(s))

\* ------------------------------------------------------------- properties
\* The first server of a set in ring order from idx, Nil if the set is empty:
\* what GetServerForTask returns from cursor idx when the set is the servers
\* that pass its two tests.
FirstInRing(idx, set) ==
    IF set = {}
    THEN Nil
    ELSE LET k == CHOOSE k \in 0 .. (NumServers - 1) :
                     /\ (idx + k) % NumServers \in set
                     /\ \A j \in 0 .. (k - 1) : (idx + j) % NumServers \notin set
         IN  (idx + k) % NumServers

PlainResult == FirstInRing(call.idx, call.admissible)

\* The servers that were available, had room for the task and had no MaGC
\* predicted within the threshold when the call started.
GCSafe == call.admissible \ call.predicted

\* The call went through the switch of GetServerGCAware with TRINI active.
ViaPolicy == caller.via \in {"policy", "escape"}

\* The caller is at l.mu.Lock() while l.mu is locked. (SetLoadBalancingPolicy
\* locks and unlocks within one step, so the holder is the caller itself.)
BlockedOnOwnMutex == caller.pc = "lock" /\ mu

\* C1: a GC-RR or GC-WRR call whose pass over the servers selected nobody goes
\* on into the plain round-robin fallback and returns; it is never left
\* waiting for the dispatcher mutex, which it holds itself.
C1_EscapeCompletes == ~(caller.via = "escape" /\ BlockedOnOwnMutex)

\* C2: with TRINI active and a GC-aware policy, a call that started with a
\* GC-safe server does not take the escape path and does not return a server
\* with a MaGC predicted within the threshold.
C2_GCSafePreferred ==
    (InCall /\ ViaPolicy /\ call.GCAware /\ GCSafe # {})
        => /\ caller.via # "escape"
           /\ ~caller.escape
           /\ (caller.pc = "returned" => caller.result \notin call.predicted)

\* C3 as stated: in the step that returns a server, that server is not
\* collecting and has room for the task, whatever the goroutines did during
\* the call.
C3_AdmissibleAtReturn ==
    [][(caller.pc # "returned" /\ caller'.pc = "returned" /\ caller'.result # Nil)
          => /\ ~Servers'[caller'.result].isCollectingGCTasks
             /\ Servers'[caller'.result].usedMemory + caller'.taskSize <= memLimit]_vars

\* C3 amended: a returned server that no goroutine has changed since the call
\* last probed its availability is not collecting and has room for the task.
C3_AdmissibleIfUnchanged ==
    (caller.pc = "returned" /\ caller.result # Nil /\ caller.result \notin dirty)
        => /\ ~Servers[caller.result].isCollectingGCTasks
           /\ Servers[caller.result].usedMemory + caller.taskSize <= memLimit

\* A GC-aware selector returned a server nobody changed since its probe while
\* a goroutine changed another one during the call.
C3_Witness ==
    /\ caller.pc = "returned"
    /\ caller.via = "policy"
    /\ caller.result # Nil
    /\ caller.result \notin dirty
    /\ dirty # {}

\* C4: with TRINI active and a policy whose GCAware is false, the call returns
\* what the plain round robin returns from the state the call started in: the
\* first server in ring order from the cursor that is available and has room,
\* forecasts ignored.
C4_NotGCAwareIsPlain ==
    (caller.pc = "returned" /\ caller.via = "policy" /\ ~call.GCAware)
        => caller.result = PlainResult

\* C5: a selector that finds TRINI inactive after it took the dispatcher mutex
\* returns the plain round-robin result; it is never left waiting for the
\* mutex it holds.
C5_InactiveCompletes == ~(caller.via = "inactive" /\ BlockedOnOwnMutex)

\* C6: with GCAware false and every server available with room for the task,
\* a call returns the server the cursor stood at when the call started (so
\* k*N calls in a row select every server k times, in cyclic order from the
\* cursor).
C6_RoundRobinStep ==
    (/\ caller.pc = "returned"
     /\ caller.via \in {"policy", "entry"}
     /\ ~call.GCAware
     /\ call.admissible = ServerIdx)
        => caller.result = call.idx

\* C7: when every server is available, has room and has a MaGC predicted
\* within the threshold, a GC-aware call completes, returns the server the
\* plain round robin returns and leaves the cursor the plain round robin
\* leaves.
C7_EscapeIsPlain ==
    (/\ InCall
     /\ ViaPolicy
     /\ call.GCAware
     /\ call.admissible = ServerIdx
     /\ call.predicted = ServerIdx)
        => /\ ~BlockedOnOwnMutex
           /\ caller.pc = "returned"
                => /\ caller.result = call.idx
                   /\ currentServerIndex = (call.idx + 1) % NumServers

\* C8: a step taken while a server is collecting leaves its usedMemory, its
\* YoungGenUsed, its OldGenUsed and its task list alone, unless it is the end
\* of the MaGC, which empties them.
C8_NoChargeWhileCollecting ==
    [][\A s \in ServerIdx :
          Servers[s].isCollectingGCTasks
              => \/ /\ Servers'[s].usedMemory = Servers[s].usedMemory
                    /\ Servers'[s].YoungGenUsed = Servers[s].YoungGenUsed
                    /\ Servers'[s].OldGenUsed = Servers[s].OldGenUsed
                    /\ Servers'[s].TaskStorage = Servers[s].TaskStorage
                 \/ /\ ~Servers'[s].isCollectingGCTasks
                    /\ Servers'[s].usedMemory = 0
                    /\ Servers'[s].YoungGenUsed = 0
                    /\ Servers'[s].OldGenUsed = 0
                    /\ Servers'[s].TaskStorage = 0]_vars

\* C9: on every server, 0 <= YoungGenUsed <= YoungGenMax and
\* 0 <= OldGenUsed <= OldGenMax.
C9_GenerationsBounded ==
    \A s \in ServerIdx :
        /\ 0 <= Servers[s].YoungGenUsed
        /\ Servers[s].YoungGenUsed <= YoungGenMax
        /\ 0 <= Servers[s].OldGenUsed
        /\ Servers[s].OldGenUsed <= OldGenMax

\* A server whose young generation stands at YoungGenMax after admissions
\* that allocated in both generations.
C9_Witness ==
    \E s \in ServerIdx :
        /\ Servers[s].YoungGenUsed = YoungGenMax
        /\ Servers[s].OldGenUsed > 0
        /\ Servers[s].TaskStorage > 0

\* C10: the step that ends a MaGC (it clears isCollectingGCTasks, it counts
\* the MaGC) adds one to GCCount and leaves usedMemory, YoungGenUsed and
\* OldGenUsed at 0, the task list empty and isCollectingGCTasks false.
C10_CompletionResets ==
    [][\A s \in ServerIdx :
          (\/ Servers'[s].GCCount # Servers[s].GCCount
           \/ Servers[s].isCollectingGCTasks /\ ~Servers'[s].isCollectingGCTasks)
              => /\ Servers'[s].GCCount = Servers[s].GCCount + 1
                 /\ Servers'[s].usedMemory = 0
                 /\ Servers'[s].YoungGenUsed = 0
                 /\ Servers'[s].OldGenUsed = 0
                 /\ Servers'[s].TaskStorage = 0
                 /\ ~Servers'[s].isCollectingGCTasks]_vars

\* A MaGC has completed on a server while a task is stored on another one.
C10_Witness ==
    \E s, t \in ServerIdx :
        /\ Servers[s].GCCount > 0
        /\ ~Servers[s].isCollectingGCTasks
        /\ Servers[s].usedMemory = 0
        /\ Servers[t].TaskStorage > 0

C12_OneResult ==
    /\ \A g \in GoIds :
          (goroutines[g].pc = "avail")
              ~> /\ \/ goroutines[g].pc = "free"
                    \/ goroutines[g].pc \in {"gcBegin", "gcEnd"} /\ ~goroutines[g].sync
                 /\ Len(goroutines[g].resultChan) = 1
    /\ [][\A g \in GoIds :
             LET t == goroutines[g]
                 u == goroutines'[g]
                 s == Servers[t.server]
             IN  /\ Len(u.resultChan) <= 1
                 /\ (u.resultChan # t.resultChan /\ u.pc # "avail")
                       => t.resultChan = <<>> /\ Len(u.resultChan) = 1
                 /\ (t.pc = "avail" /\ s.isCollectingGCTasks /\ u # t)
                       => u.pc = "free" /\ u.resultChan = <<"rejected">>
                 /\ (t.pc = "cap" /\ s.usedMemory + t.taskSize > memLimit /\ u # t)
                       => u.pc = "gcBegin" /\ u.sync /\ u.resultChan = <<>>
                 /\ (t.sync /\ u # t)
                       => \/ u.pc = "gcEnd" /\ u.sync /\ u.resultChan = <<>>
                          \/ u.pc = "free" /\ u.resultChan = <<"rejected">>]_vars

\* A goroutine has returned after it sent "rejected", and a task is stored on
\* a server.
C12_Witness ==
    /\ \E g \in GoIds :
          goroutines[g].pc = "free" /\ goroutines[g].resultChan = <<"rejected">>
    /\ \E s \in ServerIdx : Servers[s].TaskStorage > 0

\* C13: when a task has completed on a server and usedMemory / memLimit is at
\* or above gcPercentage, usedMemory later is 0 again; from such a state only
\* the end of a MaGC of that server makes it 0.
C13_GCAfterCompletion ==
    \A s \in ServerIdx :
        (\E g \in GoIds : /\ goroutines[g].pc = "post"
                          /\ goroutines[g].server = s
                          /\ Servers[s].usedMemory * 100 >= GCPercent * memLimit)
            ~> (Servers[s].usedMemory = 0)

\* The MaGC started by the post-completion trigger is running.
C13_Witness ==
    \E g \in GoIds :
        /\ goroutines[g].pc = "gcEnd"
        /\ ~goroutines[g].sync
        /\ goroutines[g].resultChan = <<"completed">>
        /\ Servers[goroutines[g].server].isCollectingGCTasks

\* C14: on every server the runtime weight (Server.Weights) stays between 0
\* and the static weight 1 that initializeTRINI gives it.
C14_WeightInRange ==
    \A s \in ServerIdx : 0 <= Servers[s].Weights /\ Servers[s].Weights <= 1

\* A GC-WRR call returned a server after it rejected another one and gave
\* that one its unit of weight back.
C14_Witness ==
    /\ caller.pc = "returned"
    /\ caller.fn = "WRR"
    /\ caller.fTries > 0
    /\ caller.result # Nil
    /\ Servers[caller.result].Weights = 0
    /\ \E s \in ServerIdx : Servers[s].Weights = 1

\* C15: GC-WRR replenishes the runtime weights only when all of them are 0,
\* and then sets each to the static weight 1 (the selection that follows takes
\* its unit from the first server). A selection without replenishment takes
\* the one unit of a server that still has it, the first such server in index
\* order, and leaves the other weights alone; apart from the replenishment, a
\* weight rises only when a rejected server gets its unit back. So when no
\* server is rejected or skipped, a server selected once has weight 0 until
\* the next replenishment, and the replenishment comes when every server has
\* been selected once.
C15_ReplenishWhenAllZero ==
    [][/\ (caller.fn = "WRR" /\ caller.pc = "lock" /\ caller'.pc = "avail")
            => LET n == caller'.i
               IN  IF \A s \in ServerIdx : Servers[s].Weights = 0
                   THEN /\ n = 0
                        /\ \A s \in ServerIdx :
                              Servers'[s].Weights = IF s = n THEN 0 ELSE 1
                   ELSE /\ Servers[n].Weights = 1
                        /\ Servers'[n].Weights = 0
                        /\ \A s \in ServerIdx :
                              /\ s < n => Servers[s].Weights = 0
                              /\ s # n => Servers'[s].Weights = Servers[s].Weights
       /\ \A s \in ServerIdx :
            Servers'[s].Weights > Servers[s].Weights
                => \/ /\ caller.fn = "WRR"
                      /\ caller.pc = "lock"
                      /\ \A r \in ServerIdx : Servers[r].Weights = 0
                   \/ /\ caller.fn = "WRR"
                      /\ caller.pc \in {"avail", "gcBegin", "gcEnd", "guard"}
                      /\ s = serverIndex(caller)
                      /\ caller'.fTries = caller.fTries + 1
       /\ (/\ caller'.pc = "returned"
           /\ caller'.fn = "WRR"
           /\ caller'.fTries = 0
           /\ caller'.result # Nil)
            => /\ Servers'[caller'.result].Weights = 0
               /\ \A s \in ServerIdx :
                     s < caller'.result => Servers'[s].Weights = 0]_vars

\* A round of GC-WRR without rejection has selected every server once: the
\* call returned the last server from its first test and every weight is 0.
C15_Witness ==
    /\ caller.pc = "returned"
    /\ caller.fn = "WRR"
    /\ caller.fTries = 0
    /\ caller.result = NumServers - 1
    /\ \A s \in ServerIdx : Servers[s].Weights = 0

\* C16: a history never holds more than 100 snapshots; a step that changes a
\* history appends one snapshot to it, and when the history was full, drops
\* its oldest snapshot and keeps the other 99 in their order before the new
\* one.
C16_HistoryBounded ==
    [][\A s \in ServerIdx :
          LET h == Servers[s].GCHistory
              k == Servers'[s].GCHistory
          IN  /\ Len(h) <= 100
              /\ Len(k) <= 100
              /\ k # h
                   => IF Len(h) = 100
                      THEN /\ Len(k) = 100
                           /\ \A i \in 1 .. 99 : k[i] = h[i + 1]
                           /\ k[100].Timestamp = now
                      ELSE /\ Len(k) = Len(h) + 1
                           /\ \A i \in 1 .. Len(h) : k[i] = h[i]
                           /\ k[Len(k)].Timestamp = now]_vars

\* A full history has lost its two oldest snapshots to two new ones.
C16_Witness ==
    \E s \in ServerIdx :
        LET h == Servers[s].GCHistory
        IN  /\ Len(h) = HistoryCap
            /\ h[1].Timestamp = 3
            /\ h[HistoryCap].Timestamp > HistoryCap

\* C17: in every history the timestamps are non-decreasing in history order:
\* no snapshot is older than the one before it.
C17_TimestampsOrdered ==
    \A s \in ServerIdx :
        LET h == Servers[s].GCHistory
        IN  \A i \in 1 .. (Len(h) - 1) : h[i].Timestamp <= h[i + 1].Timestamp

\* The snapshot goroutines of two ticks overlapped on a server: the one of the
\* earlier tick ran after the later tick, so the last two snapshots of the
\* history carry the same timestamp.
C17_Witness ==
    \E s \in ServerIdx :
        LET h == Servers[s].GCHistory
        IN  /\ Len(h) >= 2
            /\ h[Len(h)].Timestamp = h[Len(h) - 1].Timestamp
            /\ h[Len(h)].Timestamp > HistoryCap

\* The number of servers in a family, and the families no other family has
\* more servers than.
FamilyCount(id) == Cardinality({s \in ServerIdx : Servers[s].CurrentFamily = id})

LargestFamilies ==
    {id \in FamilyIDs :
        FamilyCount(id) > 0 /\ \A other \in FamilyIDs : FamilyCount(other) <= FamilyCount(id)}

\* C18: when a run of analyzeAndAdapt has read a server that is in the default
\* family and whose history holds at least 5 positive MaGCDuration values
\* among its recent snapshots, with a mean from 500 to 2000 ms, the run goes on
\* to assign the medium family to the server.
C18_DefaultToMedium ==
    [][\A s \in ServerIdx :
          LET recentDurations == RecentDurations(Servers[s].GCHistory)
          IN  (/\ StartedAnalysis \in analysisTasks[s]
               /\ StartedAnalysis \notin analysisTasks'[s]
               /\ Servers[s].CurrentFamily = "default"
               /\ Len(recentDurations) >= 5
               /\ AvgDuration(recentDurations) >= 500
               /\ AvgDuration(recentDurations) <= 2000)
                  => \E t \in analysisTasks'[s] :
                         t.pc = "adapt" /\ t.newFamily = "medium-magc"]_vars

\* C19: with TRINI active, a call of AdaptPolicy changes the active policy
\* only to the policy of a non-default family with a GC-aware policy that no
\* other family has more servers than, and when one such family has more
\* servers than every other family, the call leaves its policy as the active
\* one; when the default family has the most servers the active policy is
\* left as it was.
C19_AdaptPolicyInstallsDominant ==
    [][(caller.pc = "idle" /\ caller'.pc = "adapted")
          => /\ CurrentPolicy' # CurrentPolicy
                  => \E id \in LargestFamilies \ {"default"} :
                        /\ ProgramFamilies(id).Policy.GCAware
                        /\ CurrentPolicy' = ProgramFamilies(id).Policy
             /\ \A id \in FamilyIDs \ {"default"} :
                   (LargestFamilies = {id} /\ ProgramFamilies(id).Policy.GCAware)
                       => CurrentPolicy' = ProgramFamilies(id).Policy
             /\ LargestFamilies = {"default"} => CurrentPolicy' = CurrentPolicy]_vars

\* AdaptPolicy has installed WRR with threshold 3000 ms with every server in
\* the medium family.
C19_Witness ==
    /\ caller.pc = "adapted"
    /\ LargestFamilies = {"medium-magc"}
    /\ CurrentPolicy = [Algorithm |-> "WRR", GCAware |-> TRUE, MaGCThreshold |-> 3000]

\* C20: with TRINI active and the analysis loop running, for every non-default
\* family: if the family keeps more servers than every other family for ever,
\* the active policy is at some time the policy of that family (that is:
\* at some time the family has lost its plurality or its policy is active).
C20_PolicyFollowsPlurality ==
    \A id \in FamilyIDs \ {"default"} :
        <>(\/ LargestFamilies # {id}
           \/ ~ProgramFamilies(id).Policy.GCAware
           \/ CurrentPolicy = ProgramFamilies(id).Policy)


\* ---------------------------------------------------------- forecast validity
\* Forecasts at the edges of IsMaGCPredicted's tests: none; one that is too
\* old; and ones as old as allowed whose predicted time is a millisecond or a
\* fraction of one in the past, or exactly, a fraction of a millisecond or a
\* millisecond beyond the threshold.
SampleForecasts ==
    {NoForecast,
     [set |-> TRUE, untilUs |-> (ThresholdMs \div 2) * UsPerMs,
      ageS |-> ForecastMaxAgeS + 1, Confidence |-> ConfidenceScale]}
    \cup [set : {TRUE},
          untilUs : {0 - UsPerMs, 0 - (UsPerMs \div 2),
                     ThresholdMs * UsPerMs,
                     ThresholdMs * UsPerMs + (UsPerMs \div 2),
                     (ThresholdMs + 1) * UsPerMs},
          ageS : {ForecastMaxAgeS}, Confidence : {ConfidenceScale}]

GuardedPolicies ==
    {p \in Policies : p.Algorithm \in {"RR", "RAN", "WRR"} /\ p.GCAware}

\* The dispatcher under a GC-aware policy, the workers holding any of the
\* sample forecasts.
ForecastInit ==
    /\ Servers \in [ServerIdx -> {[NewServer EXCEPT !.LastMaGCForecast = f] :
                                      f \in SampleForecasts}]
    /\ currentServerIndex = 0
    /\ mu = FALSE
    /\ IsActive = TRUE
    /\ CurrentPolicy \in GuardedPolicies
    /\ caller = IdleCaller
    /\ goroutines = [g \in GoIds |-> FreeGoroutine]
    /\ call = NoCall
    /\ dirty = {}
    /\ now = 0
    /\ snapshotTasks = [s \in ServerIdx |-> {}]
    /\ analysisTasks = [s \in ServerIdx |-> {}]

\* One call after the other; each returns a server or stays in its escape.
ForecastNext ==
    \/ Quiet /\ \E taskSize \in TaskSizes : GetServerGCAware(taskSize)
    \/ Lock
    \/ ProbeAvailable
    \/ ProbeCapacity
    \/ ProbeGCBegin
    \/ ProbeGCEnd
    \/ GCGuard
    \/ Pick
    \/ RequestTask
    \/ ~InCall /\ GoroutineStep

ForecastSpec == ForecastInit /\ [][ForecastNext]_vars

\* The GC guard of the selector in progress let the server at its index pass.
GuardPassed ==
    IF caller.fn = "RAN"
    THEN caller'.availableServers =
             Append(caller.availableServers, serverIndex(caller))
    ELSE caller'.pc = "returned" /\ caller'.result = serverIndex(caller)

\* C21 as stated: a GC guard skips a worker exactly when it has a forecast
\* created at most 30 s ago whose predicted time is at least 0 and at most the
\* threshold ahead.
C21_AsStated ==
    [][caller.pc = "guard" =>
          LET f == Servers[serverIndex(caller)].LastMaGCForecast
          IN  ~GuardPassed <=>
                  /\ f.set
                  /\ f.ageS <= ForecastMaxAgeS
                  /\ 0 <= f.untilUs
                  /\ f.untilUs <= CurrentPolicy.MaGCThreshold * UsPerMs]_vars

\* C21: a GC guard skips a worker exactly when it has a forecast created at
\* most 30 s ago whose predicted time is less than one millisecond in the past
\* and less than one millisecond beyond the threshold (the whole milliseconds
\* of the remaining time are at least 0 and at most the threshold); a forecast
\* older than 30 s, or one whose predicted time passed a millisecond or more
\* ago, never makes a guard skip a worker.
C21_ForecastValid ==
    [][caller.pc = "guard" =>
          LET f == Servers[serverIndex(caller)].LastMaGCForecast
          IN  ~GuardPassed <=>
                  /\ f.set
                  /\ f.ageS <= ForecastMaxAgeS
                  /\ 0 - UsPerMs < f.untilUs
                  /\ f.untilUs < (CurrentPolicy.MaGCThreshold + 1) * UsPerMs]_vars

\* A guard is about to test a worker whose forecast's predicted time passed a
\* fraction of a millisecond ago.
C21_Witness ==
    /\ caller.pc = "guard"
    /\ Servers[serverIndex(caller)].LastMaGCForecast.set
    /\ Servers[serverIndex(caller)].LastMaGCForecast.untilUs < 0
    /\ Servers[serverIndex(caller)].LastMaGCForecast.untilUs > 0 - UsPerMs


\* ------------------------------------------------------- setting the policy
validAlgorithms == {"RR", "RAN", "WRR", "WRAN"}

\* Algorithm names as a client may type them.
AlgorithmArgs == validAlgorithms \cup {"rr", "LC"}

\* strings.ToUpper on those names.
ToUpper(algorithm) == IF algorithm = "rr" THEN "RR" ELSE algorithm

\* PUT /api/v1/trini/policy: a policy whose algorithm is not one of the four
\* is answered with 400 and nothing is installed.
updateTRINIPolicy(policy) ==
    IF policy.Algorithm \in validAlgorithms
    THEN SetLoadBalancingPolicy(policy)
    ELSE UNCHANGED vars

\* "trini policy <algorithm> <threshold_ms>": the algorithm in upper case, in a
\* GC-aware policy.
setPolicyFromArgs(algorithm, threshold) ==
    SetLoadBalancingPolicy([Algorithm |-> ToUpper(algorithm), GCAware |-> TRUE,
                            MaGCThreshold |-> threshold])

\* Both clients set policies between the calls of the dispatcher.
PolicyNext ==
    \/ ~InCall /\ \E policy \in [Algorithm : AlgorithmArgs, GCAware : BOOLEAN,
                                 MaGCThreshold : {ThresholdMs}] :
                      updateTRINIPolicy(policy)
    \/ ~InCall /\ \E algorithm \in AlgorithmArgs :
                      setPolicyFromArgs(algorithm, ThresholdMs)
    \/ Quiet /\ \E taskSize \in TaskSizes : GetServerGCAware(taskSize)
    \/ CallerStep
    \/ ~InCall /\ GoroutineStep

PolicySpec == Init /\ [][PolicyNext]_vars

\* C22: in every reachable state the algorithm of the active policy is one of
\* RR, RAN, WRR and WRAN (from startup on, and whichever client sets policies).
C22_AlgorithmValid == CurrentPolicy.Algorithm \in {"RR", "RAN", "WRR", "WRAN"}


\* ---------------------------------------------------- the clients' task path
\* TRINI active, a GC-aware policy installed, forecasts on the workers; every
\* worker is empty or holds one task of half its memory, the cursor is
\* anywhere.
TaskInit ==
    /\ Servers \in [ServerIdx ->
                      {[server EXCEPT !.LastMaGCForecast = f] :
                          server \in {NewServer, handleTask(NewServer, memLimit \div 2)},
                          f \in Forecasts}]
    /\ currentServerIndex \in ServerIdx
    /\ mu = FALSE
    /\ IsActive = TRUE
    /\ CurrentPolicy \in {p \in Policies : p.GCAware}
    /\ caller = IdleCaller
    /\ goroutines = [g \in GoIds |-> FreeGoroutine]
    /\ call = NoCall
    /\ dirty = {}
    /\ now = 0
    /\ snapshotTasks = [s \in ServerIdx |-> {}]
    /\ analysisTasks = [s \in ServerIdx |-> {}]

\* The "task" command (handleTask) and POST /api/v1/task (submitTask): both
\* call lb.GetServerForTask, then srv.RequestTask; one task after the other.
TaskNext ==
    \/ Quiet /\ \E taskSize \in TaskSizes : GetServerForTask(taskSize)
    \/ Lock
    \/ ProbeAvailable
    \/ ProbeCapacity
    \/ ProbeGCBegin
    \/ ProbeGCEnd
    \/ RequestTask
    \/ NoServer
    \/ ~InCall /\ GoroutineStep

TaskSpec == TaskInit /\ [][TaskNext]_vars

\* C23: with TRINI active and a GC-aware policy, a task submitted by the "task"
\* command or POST /api/v1/task is not routed to a worker with a MaGC
\* predicted within the threshold when the call started with an admissible
\* worker that had none.
C23_ClientTaskSkipsPredicted ==
    (/\ caller.pc = "returned"
     /\ IsActive
     /\ CurrentPolicy.GCAware
     /\ GCSafe # {})
        => caller.result \notin call.predicted


\* ------------------------------------------------------ forecast confidence
\* Lengths of history: too short for a forecast, just below and at the window
\* of full confidence, longer than every family's window.
ConfidenceLens == {4, FullWindow - 1, FullWindow, 36}

\* The latest snapshot was taken 30 s ago, 32 s ago (in monitoring ticks).
LatestSnapshotAges ==
    {ForecastMaxAgeS \div MonitorIntervalS,
     ForecastMaxAgeS \div MonitorIntervalS + 1}

\* The family every server starts in and one with a window above FullWindow.
WindowFamilies == {"default", "medium-magc"}

\* The server after the tasks that arrived before its k-th snapshot;
\* arrivals[j] is the size of the task handled before snapshot j, 0 for none.
RECURSIVE ServerAfter(_, _)
ServerAfter(arrivals, k) ==
    IF k = 0 THEN NewServer
    ELSE IF arrivals[k] = 0 THEN ServerAfter(arrivals, k - 1)
    ELSE handleTask(ServerAfter(arrivals, k - 1), arrivals[k])

\* The history of a server that handled those tasks, one snapshot per tick
\* up to time HistoryCap.
ArrivalHistory(arrivals) ==
    [k \in 1 .. Len(arrivals) |->
        GCSnapshot(ServerAfter(arrivals, k), HistoryCap - Len(arrivals) + k)]

\* A server that idled and then handled a task of 5 bytes before each of its
\* last two snapshots.
LateArrivals(len) == [k \in 1 .. len |-> IF k >= len - 1 THEN 5 ELSE 0]

\* The analyzer on servers with such histories of those lengths in one of
\* those families, the monitor having stopped some time ago.
ConfidenceInit ==
    /\ Servers \in [ServerIdx ->
                      {[NewServer EXCEPT !.GCHistory =
                                             ArrivalHistory(LateArrivals(len)),
                                         !.CurrentFamily = id] :
                          len \in ConfidenceLens, id \in WindowFamilies}]
    /\ currentServerIndex = 0
    /\ mu = FALSE
    /\ IsActive = TRUE
    /\ CurrentPolicy = ZeroPolicy
    /\ caller = IdleCaller
    /\ goroutines = [g \in GoIds |-> FreeGoroutine]
    /\ call = NoCall
    /\ dirty = {}
    /\ now \in {HistoryCap + age : age \in LatestSnapshotAges}
    /\ snapshotTasks = [s \in ServerIdx |-> {}]
    /\ analysisTasks = [s \in ServerIdx |-> {}]

ConfidenceNext ==
    \/ analysisLoop
    \/ \E s \in ServerIdx : analyzeAndAdapt(s)

ConfidenceSpec == ConfidenceInit /\ [][ConfidenceNext]_vars

\* C24: the confidence of a forecast that analyzeAndAdapt stores is, in units
\* of 1/40, min(40, 2 * |W|) when the last snapshot of the window W is at most
\* 30 s old and half of that otherwise, W being the last snapshots of the
\* run's copy of the history, as many as the family's window size and the copy
\* allow; it is within [0, 1], and it is the full or the halved maximum from
\* |W| = 20 on.
C24_Confidence ==
    [][\A s \in ServerIdx :
          \A t \in analysisTasks[s] \ analysisTasks'[s] :
              (/\ t.pc = "forecast"
               /\ Servers'[s].LastMaGCForecast # Servers[s].LastMaGCForecast)
                  => LET fw == ProgramFamilies(Servers[s].CurrentFamily).ForecastWindowSize
                         W == IF fw > Len(t.gcHistory) THEN Len(t.gcHistory) ELSE fw
                         latest == t.gcHistory[Len(t.gcHistory)].Timestamp
                         fresh == (now - latest) * MonitorIntervalS <= 30
                         full == IF 2 * W > 40 THEN 40 ELSE 2 * W
                         c == Servers'[s].LastMaGCForecast.Confidence
                     IN  /\ c = IF fresh THEN full ELSE full \div 2
                         /\ c >= 0
                         /\ c <= 40
                         /\ W >= 20 => c \in {20, 40}]_vars

\* A forecast of halved full confidence is stored: its window had at least 20
\* snapshots, the last of them older than 30 s.
C24_Witness ==
    \E s \in ServerIdx :
        /\ Servers[s].LastMaGCForecast.set
        /\ Servers[s].LastMaGCForecast.Confidence = ConfidenceScale \div 2
        /\ Len(Servers[s].GCHistory) > FullWindow
        /\ (now - Servers[s].GCHistory[Len(Servers[s].GCHistory)].Timestamp)
               * MonitorIntervalS > ForecastMaxAgeS


\* ------------------------------------------------------ switching TRINI off
\* Every server idle in the medium family, with five snapshots of short
\* MaGCs; TRINI active, one monitoring tick ahead.
SwitchInit ==
    /\ Servers = [s \in ServerIdx |->
                    [NewServer EXCEPT !.GCHistory =
                        DurationHistory(<<300, 300, 300, 300, 300>>),
                                      !.CurrentFamily = "medium-magc"]]
    /\ currentServerIndex = 0
    /\ mu = FALSE
    /\ IsActive = TRUE
    /\ CurrentPolicy = ZeroPolicy
    /\ caller = IdleCaller
    /\ goroutines = [g \in GoIds |-> FreeGoroutine]
    /\ call = NoCall
    /\ dirty = {}
    /\ now = HistoryCap + MaxTicks - 1
    /\ snapshotTasks = [s \in ServerIdx |-> {}]
    /\ analysisTasks = [s \in ServerIdx |-> {}]

\* The two loops, the goroutines they start, and "trini off".
SwitchNext ==
    \/ monitoringLoop
    \/ \E s \in ServerIdx : collectGCSnapshot(s)
    \/ analysisLoop
    \/ \E s \in ServerIdx : analyzeAndAdapt(s)
    \/ ToggleTRINI(FALSE)

SwitchSpec == SwitchInit /\ [][SwitchNext]_vars

\* C25: a step taken while TRINI is inactive appends no snapshot to any
\* server's history and changes no server's family or forecast.
C25_InactiveFrame ==
    [][~IsActive =>
          \A s \in ServerIdx :
              /\ Servers'[s].GCHistory = Servers[s].GCHistory
              /\ Servers'[s].CurrentFamily = Servers[s].CurrentFamily
              /\ Servers'[s].LastMaGCForecast = Servers[s].LastMaGCForecast]_vars


\* C26: a call of the plain round robin returns the first server, in ring
\* order from the cursor, that is available and has room for the task, and
\* leaves the cursor one past it (modulo the number of servers); it returns
\* none only when no server passes the two tests, and the cursor is then where
\* it was; the cursor is always an index of a server. (The servers do not
\* change during the call other than by the call's own tests.)
C26_PlainRoundRobin ==
    /\ currentServerIndex \in 0 .. (NumServers - 1)
    /\ (caller.pc = "returned" /\ caller.via = "direct") =>
          LET passing == {k \in 0 .. (NumServers - 1) :
                              (call.idx + k) % NumServers \in call.admissible}
          IN  IF passing = {}
              THEN caller.result = Nil /\ currentServerIndex = call.idx
              ELSE \E k \in passing :
                      /\ \A j \in passing : k <= j
                      /\ caller.result = (call.idx + k) % NumServers
                      /\ currentServerIndex = (call.idx + k + 1) % NumServers

\* A call has returned a server that is not the one at the cursor: the one at
\* the cursor failed a test.
C26_Witness ==
    /\ caller.pc = "returned"
    /\ caller.via = "direct"
    /\ caller.result # Nil
    /\ caller.result # call.idx


\* C27: in a GC-WRR call, after the replenishment at entry (every weight back
\* to 1 when all were 0), the runtime weights differ from those at entry only
\* by the unit taken from the candidate under test; every candidate that
\* failed a test has its weight back (all of them when the call goes on into
\* its escape), and when the call returns worker w only w's weight has
\* changed, by -1.
C27_OnlySelectedDecremented ==
    LET atEntry == IF \A s \in ServerIdx : call.weights[s] = 0
                   THEN [s \in ServerIdx |-> 1]
                   ELSE call.weights
        taken == IF caller.pc = "returned"
                 THEN caller.result
                 ELSE caller.i % NumServers
    IN  /\ (/\ caller.fn = "WRR"
             /\ caller.via = "policy"
             /\ caller.pc \in {"avail", "cap", "gcBegin", "gcEnd", "guard", "returned"})
                => \A s \in ServerIdx :
                       Servers[s].Weights =
                           IF s = taken THEN atEntry[s] - 1 ELSE atEntry[s]
        /\ (/\ CurrentPolicy.Algorithm = "WRR"
             /\ IsActive
             /\ caller.via = "escape")
                => \A s \in ServerIdx : Servers[s].Weights = atEntry[s]

\* A GC-WRR call has returned a worker after another candidate failed a test.
C27_Witness ==
    /\ caller.fn = "WRR"
    /\ caller.pc = "returned"
    /\ caller.result # Nil
    /\ caller.fTries > 0


\* C28: in every reachable state, every server's usedMemory is the sum of its
\* YoungGenUsed and OldGenUsed.
C28_TotalIsSum ==
    \A s \in ServerIdx :
        Servers[s].usedMemory = Servers[s].YoungGenUsed + Servers[s].OldGenUsed


\* C29: the admission of a task of size n by a goroutine of RequestTask is one
\* step that adds n to usedMemory, adds floor(0.8 n) to YoungGenUsed and the
\* rest of n to OldGenUsed, then moves floor(YoungGenUsed / 4) from the young
\* to the old generation if YoungGenUsed exceeds half of YoungGenMax, then caps
\* each generation at its maximum.
C29_Admission ==
    [][\A g \in GoIds :
          (goroutines[g].pc = "handle" /\ goroutines'[g].pc = "post")
              => LET s == goroutines[g].server
                     n == goroutines[g].taskSize
                     y0 == Servers[s].YoungGenUsed + (8 * n) \div 10
                     o0 == Servers[s].OldGenUsed + (n - (8 * n) \div 10)
                     moved == IF 2 * y0 > YoungGenMax THEN y0 \div 4 ELSE 0
                     y1 == y0 - moved
                     o1 == o0 + moved
                 IN  /\ Servers'[s].usedMemory = Servers[s].usedMemory + n
                     /\ Servers'[s].YoungGenUsed =
                            IF y1 > YoungGenMax THEN YoungGenMax ELSE y1
                     /\ Servers'[s].OldGenUsed =
                            IF o1 > OldGenMax THEN OldGenMax ELSE o1]_vars

\* A task has just been admitted with a promotion and a cap: the young
\* generation is at its maximum, the old one holds more than a fifth of what
\* is used.
C29_Witness ==
    \E g \in GoIds :
        /\ goroutines[g].pc = "post"
        /\ Servers[goroutines[g].server].YoungGenUsed = YoungGenMax
        /\ 5 * Servers[goroutines[g].server].OldGenUsed
               > Servers[goroutines[g].server].usedMemory


\* ------------------------------------------------- snapshots of a busy heap
\* The servers as constructed, one monitoring tick ahead.
HeapInit ==
    /\ Servers = [s \in ServerIdx |-> NewServer]
    /\ currentServerIndex = 0
    /\ mu = FALSE
    /\ IsActive = TRUE
    /\ CurrentPolicy = ZeroPolicy
    /\ caller = IdleCaller
    /\ goroutines = [g \in GoIds |-> FreeGoroutine]
    /\ call = NoCall
    /\ dirty = {}
    /\ now = HistoryCap + MaxTicks - 1
    /\ snapshotTasks = [s \in ServerIdx |-> {}]
    /\ analysisTasks = [s \in ServerIdx |-> {}]

\* The clients' tasks, one after the other, and the monitor: a snapshot is
\* taken at any point of the goroutine that admits a task and of the MaGC it
\* starts.
HeapNext ==
    \/ TaskNext
    \/ ~InCall /\ monitoringLoop
    \/ ~InCall /\ \E s \in ServerIdx : collectGCSnapshot(s)

HeapSpec == HeapInit /\ [][HeapNext]_vars

\* C30: a snapshot taken while a task is being admitted to the server, or while
\* a MaGC resets it, records the usedMemory, YoungGenUsed and OldGenUsed the
\* server has all at once, before or after the admission (or the reset),
\* never values of both.
C30_SnapshotAtomic ==
    [][\A s \in ServerIdx :
          Servers'[s].GCHistory # Servers[s].GCHistory
              => LET snapshot == Servers'[s].GCHistory[Len(Servers'[s].GCHistory)]
                 IN  /\ snapshot.TotalMemUsed = Servers[s].usedMemory
                     /\ snapshot.YoungGenUsed = Servers[s].YoungGenUsed
                     /\ snapshot.OldGenUsed = Servers[s].OldGenUsed
                     /\ Servers'[s].usedMemory = Servers[s].usedMemory
                     /\ Servers'[s].YoungGenUsed = Servers[s].YoungGenUsed
                     /\ Servers'[s].OldGenUsed = Servers[s].OldGenUsed]_vars

\* A snapshot of a charged heap exists while the goroutine that admitted the
\* task has not finished.
C30_Witness ==
    \E g \in GoIds :
        LET s == goroutines[g].server
        IN  /\ goroutines[g].pc = "post"
            /\ Len(Servers[s].GCHistory) > 0
            /\ Servers[s].GCHistory[Len(Servers[s].GCHistory)].TotalMemUsed > 0


\* C31: the dispatcher's mutex is not held while the caller is inside a
\* server's IsAvailable or CanHandleTaskSize, the blocking MaGC of a failed
\* capacity test included.
C31_NoMutexInProbe ==
    caller.pc \in {"avail", "cap", "gcBegin", "gcEnd"} => ~mu

\* Histories of five snapshots: an idle server (both fits have a zero
\* denominator); a server whose YoungGen falls while its OldGen grows (the
\* threshold is negative before the clamp); a server that has already reached
\* the threshold (the time is negative before the clamp); a server with a
\* MaGC ahead.
MaGAArrivals ==
    {<<0, 0, 0, 0, 0>>, <<32, 0, 0, 2, 0>>, <<50, 0, 0, 50, 0>>,
     LateArrivals(5)}

\* The analyzer at time HistoryCap on servers with those histories, with or
\* without a forecast stored by an earlier run, and on idle servers in the
\* long family whose five MaGCs took 500 ms each.
MaGAInit ==
    /\ Servers \in [ServerIdx ->
                      {[NewServer EXCEPT !.GCHistory = ArrivalHistory(arrivals),
                                         !.LastMaGCForecast = f] :
                          arrivals \in MaGAArrivals, f \in Forecasts}
                      \cup {[NewServer EXCEPT
                                !.GCHistory = DurationHistory(
                                                  <<500, 500, 500, 500, 500>>),
                                !.CurrentFamily = "long-magc"]}]
    /\ currentServerIndex = 0
    /\ mu = FALSE
    /\ IsActive = TRUE
    /\ CurrentPolicy = ZeroPolicy
    /\ caller = IdleCaller
    /\ goroutines = [g \in GoIds |-> FreeGoroutine]
    /\ call = NoCall
    /\ dirty = {}
    /\ now = HistoryCap
    /\ snapshotTasks = [s \in ServerIdx |-> {}]
    /\ analysisTasks = [s \in ServerIdx |-> {}]

MaGASpec == MaGAInit /\ [][ConfidenceNext]_vars

\* C32: a run of the analyzer that produces no forecast for a server, from a
\* fit with a zero denominator, leaves the server without a valid forecast
\* for any threshold, whatever an earlier run had stored.
C32_FailedTickDisablesGuard ==
    [][\A s \in ServerIdx :
          \A t \in analysisTasks[s] \ analysisTasks'[s] :
              (/\ t.pc = "forecast"
               /\ \A k \in 1 .. Len(t.gcHistory) :
                     t.gcHistory[k].OldGenUsed = t.gcHistory[1].OldGenUsed)
              => LET f == Servers'[s].LastMaGCForecast
                 IN  ~(f.set /\ f.ageS <= ForecastMaxAgeS /\ f.untilUs >= 0)]_vars

\* C33: a run of the analyzer on five or more snapshots whose window has
\* neither all OldGen values equal nor all YoungGen values equal outputs a
\* forecast, which the run stores.
C33_ForecastUnlessSingular ==
    [][\A s \in ServerIdx :
          \A t \in analysisTasks[s] \ analysisTasks'[s] :
              (/\ t.pc = "forecast"
               /\ Len(t.gcHistory) = 5
               /\ \E k \in 1 .. 5 :
                     t.gcHistory[k].OldGenUsed # t.gcHistory[1].OldGenUsed
               /\ \E k \in 1 .. 5 :
                     t.gcHistory[k].YoungGenUsed # t.gcHistory[1].YoungGenUsed)
              => Servers'[s].LastMaGCForecast.set]_vars

\* C34: a run of analyzeAndAdapt that has read a server in the long family
\* whose recent MaGC durations have the mean 500, which meets the bounds of
\* the short and of the medium family, goes on to assign the short family,
\* the first of the two in the order short, medium, long.
C34_FirstFamilyInOrder ==
    [][\A s \in ServerIdx :
          LET recentDurations == RecentDurations(Servers[s].GCHistory)
          IN  (/\ StartedAnalysis \in analysisTasks[s]
               /\ StartedAnalysis \notin analysisTasks'[s]
               /\ Servers[s].CurrentFamily = "long-magc"
               /\ Len(recentDurations) = 5
               /\ \A k \in 1 .. 5 : recentDurations[k] = 500)
              => \E t \in analysisTasks'[s] :
                    t.pc = "adapt" /\ t.newFamily = "short-magc"]_vars

\* C35: with TRINI active and two or more families tied for the largest
\* number of servers, a call of AdaptPolicy treats as dominant the tied family
\* that comes first in the order short, medium, long, default: it installs
\* that family's policy when it is GC-aware and leaves the policy alone
\* otherwise, whatever the order of the servers.
C35_TieByRegistryOrder ==
    [][(/\ caller.pc = "idle"
        /\ caller'.pc = "adapted"
        /\ IsActive
        /\ Cardinality(LargestFamilies) >= 2)
          => LET order == <<"short-magc", "medium-magc", "long-magc", "default">>
                 first == CHOOSE k \in 1 .. 4 :
                              /\ order[k] \in LargestFamilies
                              /\ \A j \in 1 .. (k - 1) : order[j] \notin LargestFamilies
                 policy == ProgramFamilies(order[first]).Policy
             IN  CurrentPolicy' = IF policy.GCAware THEN policy ELSE CurrentPolicy]_vars

\* Every server has handled one task of the same size, from none to one that
\* fills the heap, and is idle.
DurationInit ==
    /\ \E taskSize \in 0 .. memLimit :
          Servers = [s \in ServerIdx |-> ServerAfter(<<taskSize>>, 1)]
    /\ currentServerIndex = 0
    /\ mu = FALSE
    /\ IsActive = TRUE
    /\ CurrentPolicy = ZeroPolicy
    /\ caller = IdleCaller
    /\ goroutines = [g \in GoIds |-> FreeGoroutine]
    /\ call = NoCall
    /\ dirty = {}
    /\ now = 0
    /\ snapshotTasks = [s \in ServerIdx |-> {}]
    /\ analysisTasks = [s \in ServerIdx |-> {}]

DurationSpec == DurationInit /\ [][TaskNext]_vars

RaceInit ==
    /\ Servers = [s \in ServerIdx |-> handleTask(NewServer, memLimit \div 2)]
    /\ currentServerIndex = 0
    /\ mu = FALSE
    /\ IsActive = TRUE
    /\ CurrentPolicy = ZeroPolicy
    /\ caller = IdleCaller
    /\ goroutines = [g \in GoIds |->
                       IF g = 1
                       THEN [FreeGoroutine EXCEPT !.pc = "handle", !.server = 0,
                                                  !.taskSize = memLimit]
                       ELSE FreeGoroutine]
    /\ call = NoCall
    /\ dirty = {}
    /\ now = 0
    /\ snapshotTasks = [s \in ServerIdx |-> {}]
    /\ analysisTasks = [s \in ServerIdx |-> {}]

RaceSpec == RaceInit /\ [][WorkerNext]_vars

\* C37: usedMemory never exceeds memLimit on any server.
C37_HeapWithinLimit ==
    \A s \in ServerIdx : Servers[s].usedMemory <= memLimit

\* C38: on every server at most one caller of CollectGCTasks is between its
\* two critical sections, and one is exactly when isCollectingGCTasks is set;
\* a caller that finds the flag set returns without changing the server;
\* GCCount changes only by one, in the step that ends a started MaGC; whether
\* the MaGC was requested by the dispatcher's failed capacity test, by a
\* goroutine's failed re-check or after a completed task.
C38_OneMaGCAtATime ==
    /\ [](\A s \in ServerIdx :
             LET sleeping == {g \in GoIds : /\ goroutines[g].pc = "gcEnd"
                                            /\ goroutines[g].server = s}
                 probing == caller.pc = "gcEnd" /\ serverIndex(caller) = s
                 inProgress == Cardinality(sleeping) + (IF probing THEN 1 ELSE 0)
             IN  /\ inProgress <= 1
                 /\ Servers[s].isCollectingGCTasks <=> inProgress = 1)
    /\ [][/\ \A g \in GoIds :
                LET s == goroutines[g].server
                IN  /\ (/\ goroutines[g].pc = "gcBegin"
                        /\ goroutines'[g] # goroutines[g]
                        /\ Servers[s].isCollectingGCTasks)
                           => Servers' = Servers /\ goroutines'[g].pc # "gcEnd"
                    /\ (goroutines[g].pc = "gcEnd" /\ goroutines'[g] # goroutines[g])
                           => Servers'[s].GCCount = Servers[s].GCCount + 1
          /\ (/\ caller.pc = "gcBegin"
              /\ caller' # caller
              /\ Servers[serverIndex(caller)].isCollectingGCTasks)
                 => Servers' = Servers /\ caller'.pc # "gcEnd"
          /\ (caller.pc = "gcEnd" /\ caller' # caller)
                 => Servers'[serverIndex(caller)].GCCount
                        = Servers[serverIndex(caller)].GCCount + 1
          /\ \A s \in ServerIdx :
                Servers'[s].GCCount # Servers[s].GCCount
                    => /\ Servers'[s].GCCount = Servers[s].GCCount + 1
                       /\ Servers[s].isCollectingGCTasks
                       /\ ~Servers'[s].isCollectingGCTasks]_vars

\* The dispatcher's failed capacity test is about to request a MaGC of a
\* server while the MaGC that a goroutine started after its completed task is
\* in progress on it.
C38_Witness ==
    /\ caller.pc = "gcBegin"
    /\ \E g \in GoIds :
          /\ goroutines[g].pc = "gcEnd"
          /\ ~goroutines[g].sync
          /\ goroutines[g].server = serverIndex(caller)

\* C39: under the scheduler's fairness, a server that is collecting is later
\* not collecting, whatever probes, tasks and MaGC requests contend for it.
C39_MaGCTerminates ==
    \A s \in ServerIdx :
        Servers[s].isCollectingGCTasks ~> ~Servers[s].isCollectingGCTasks

\* A server is collecting while the dispatcher is inside IsAvailable of that
\* server with the dispatcher's mutex held.
C39_Witness ==
    /\ caller.pc = "avail"
    /\ mu
    /\ Servers[serverIndex(caller)].isCollectingGCTasks
    /\ \E g \in GoIds : goroutines[g].pc = "gcEnd"

\* C40: a GC-WRAN or GC-RAN call that started with at least one server
\* available and with room for the task returns a server.
C40_RandomReturnsAdmissible ==
    (/\ caller.pc = "returned"
     /\ caller.fn \in {"RAN", "WRAN"}
     /\ call.admissible # {})
        => caller.result # Nil

=============================================================================
